---- MODULE Spec2Model ----
(***************************************************************************)
(* Model of the systrace supervisor (src/src/traced_task.rs): the task     *)
(* records, the address-space scoped collections behind Rc<RefCell<..>>,   *)
(* the seccomp / syscall-exit / fork / vfork / clone / exec / exit         *)
(* handlers, and the tracee threads and kernel that feed them stops.       *)
(*                                                                         *)
(* The supervisor is single threaded: one handler runs at a time.  The     *)
(* seccomp handler is cut at its two lock acquisitions so that the lockset *)
(* states it passes through are states of the model; tracee threads keep   *)
(* running between those steps.                                            *)
(***************************************************************************)
EXTENDS Integers, Sequences, FiniteSets, TLC

\* ------------------------------------------------------------------ bounds
MaxTasks == 3
MaxEvents == 5
NumSites == 2

Tasks == 1..MaxTasks
Sites == 1..NumSites

\* --------------------------------------------------------------- constants
None == 0 - 1

PTRACE_EVENT_FORK == 1
PTRACE_EVENT_VFORK == 2
PTRACE_EVENT_CLONE == 3
PTRACE_EVENT_EXEC == 4
PTRACE_EVENT_EXIT == 6
PTRACE_EVENT_SECCOMP == 7
SIGTRAP == 5
SIGCHLD == 17
SYSCALL_INSN_SIZE == 2
\* the two bytes 0f 05 read as a little-endian 16 bit value, and the mask
SYSCALL_INSN == 5 * 256 + 15
SYSCALL_INSN_MASK == 65535
\* first byte of the 5-byte `call rel32` that replaces the syscall
CALL_OPCODE == 232
PAGE == 4 * 1024
\* task_exec_reset: injected_mmap_page = Some(0x7000_0000); kept in pages
INJECTED_MMAP_PAGE == 7 * 65536
\* where the trampoline library is loaded in a tracee (page aligned, nonzero)
TRAMPOLINE_BASE == 6 * 65536

\* Addresses are byte addresses in a scaled-down address space: the reach of
\* a rel32 displacement, 2^31 in the code, is 2^15 here.
two_gb == 2 * 16384
extended_jump_pages == 1

\* rip of a thread stopped at the seccomp event of site i: the address just
\* after the two-byte syscall instruction.
SiteRip(i) == 16 * PAGE + (i - 1) * 256 + SYSCALL_INSN_SIZE
Rips == {SiteRip(i) : i \in Sites}
\* a rip that is no syscall site (entry point of a new image, signal return)
OtherRip == 1
NoRip == 0

\* TaskState
Ready == <<"Ready", 0>>
Running == <<"Running", 0>>
Syscall == <<"Syscall", 0>>
Event(ev) == <<"Event", ev>>
\* a Stopped that leaves the task at its seccomp event
StoppedAtEvent(sig) == <<"Event", PTRACE_EVENT_SECCOMP>>

Stopped(sig) == <<"Stopped", sig>>
Exited(code) == <<"Exited", code>>

\* ------------------------------------------------------------ hook catalog
SYSCALL_HOOKS ==
    << <<72, 61, 1, 240, 255, 255>>,
       <<72, 61, 0, 240, 255, 255>>,
       <<72, 139, 60, 36>>,
       <<90, 94, 195>>,
       <<137, 194, 247, 218>>,
       <<144, 144, 144>>,
       <<186, 1, 0, 0, 0>>,
       <<137, 193, 49, 210>>,
       <<195, 15, 31, 132, 0, 0, 0, 0, 0>>,
       <<195, 15, 31, 68, 0, 0>>,
       <<195, 15, 31, 0>>,
       <<195, 102, 144>> >>

Pad16(bs) == [k \in 1..16 |-> IF k <= Len(bs) THEN bs[k] ELSE 204]

\* The 16 bytes that follow the syscall instruction of a site in the program
\* text: odd sites carry a catalog tail, even sites `mov %rax,%rbx`.
SiteTail(rip) ==
    LET i == CHOOSE j \in Sites : SiteRip(j) = rip
    IN  IF i % 2 = 1
        THEN Pad16(SYSCALL_HOOKS[(((i - 1) \div 2) % Len(SYSCALL_HOOKS)) + 1])
        ELSE Pad16(<<72, 137, 195>>)

\* After a patch the call's rel32 covers the first three bytes and nops follow.
PatchedTail == Pad16(<<0, 0, 0, 15, 31, 0>>)

\* ---------------------------------------------------------------- lockset
\* RemoteRWLock: per site the thread-ids holding it for read and for write.
RemoteRWLock_new == [r \in Rips |-> [readers |-> {}, writers |-> {}]]

try_read_lock_ok(L, tid, rip) ==
    rip \in Rips /\ L[rip].writers \subseteq {tid}

try_read_lock(L, tid, rip) ==
    IF try_read_lock_ok(L, tid, rip)
    THEN [L EXCEPT ![rip].readers = @ \cup {tid}]
    ELSE L

try_read_unlock(L, tid, rip) ==
    IF rip \in Rips THEN [L EXCEPT ![rip].readers = @ \ {tid}] ELSE L

try_write_lock_ok(L, tid, rip) ==
    rip \in Rips /\ L[rip].readers = {} /\ L[rip].writers \subseteq {tid}

try_write_lock(L, tid, rip) ==
    IF try_write_lock_ok(L, tid, rip)
    THEN [L EXCEPT ![rip].writers = @ \cup {tid}]
    ELSE L

try_write_unlock(L, tid, rip) ==
    IF rip \in Rips THEN [L EXCEPT ![rip].writers = @ \ {tid}] ELSE L

\* ------------------------------------------------------------------- state
VARIABLES
    tasks,           \* tid -> TracedTask record (the Rc fields hold cell ids)
    rc,              \* cell id -> contents of the Rc<RefCell<..>> cells
    thr,             \* tid -> the tracee thread as the kernel has it
    space,           \* address space id -> code bytes, trampoline, mappings
                     \* (an id no thread uses holds a fresh space)
    sup,             \* where the supervisor is: idle or inside a handler
    systrace_state,  \* the counters of the shared-state page
    nevents,         \* number of stops delivered so far
    probe            \* extended_jump_from_to or remote_do_syscall_at taken on
                     \* its own: its arguments, its position and its result

vars == <<tasks, rc, thr, space, sup, systrace_state, nevents, probe>>

EmptyCell ==
    [memory_map |-> <<>>, stub_pages |-> <<>>, unpatchable_syscalls |-> <<>>,
     patched_syscalls |-> <<>>, syscall_patch_lockset |-> RemoteRWLock_new]

\* Task::new
new(pid_) ==
    [pid |-> pid_, ppid |-> pid_, in_vfork |-> FALSE, seccomp_hook_size |-> None,
     state |-> Ready, ldpreload_address |-> None, injected_mmap_page |-> None,
     signal_to_deliver |-> None,
     memory_map |-> pid_, stub_pages |-> pid_, unpatchable_syscalls |-> pid_,
     patched_syscalls |-> pid_, syscall_patch_lockset |-> pid_]

\* sched: absent, sigstop (created, waiting for the supervisor to attach),
\* running (resumed, in user code or inside its syscall), stopped (a stop is
\* waiting for its handler), dead.
NoThread ==
    [sched |-> "absent", rip |-> NoRip, inflight |-> NoRip, aspace |-> 0,
     tgid |-> 0, vfork_parent |-> 0, newborn |-> 0, restart |-> FALSE]

FreshSpace ==
    [insn |-> [r \in Rips |-> SYSCALL_INSN], loaded |-> FALSE, pages |-> {},
     rewrites |-> [r \in Rips |-> 0]]

Idle == [pc |-> "idle", tid |-> 0, hook |-> None]

\* no routine is examined on its own
NoProbe == [pc |-> "none"]

Init ==
    /\ probe = NoProbe
    /\ tasks = [t \in Tasks |-> new(t)]
    /\ rc = [h \in Tasks |-> EmptyCell]
    /\ thr = [t \in Tasks |->
                IF t = 1
                THEN [NoThread EXCEPT !.sched = "running", !.aspace = 1, !.tgid = 1]
                ELSE NoThread]
    /\ space = [a \in Tasks |-> FreshSpace]
    /\ sup = Idle
    /\ systrace_state =
         [nr_syscalls |-> 0, nr_syscalls_ptraced |-> 0, nr_syscalls_patched |-> 0,
          nr_forked |-> 0, nr_cloned |-> 0, nr_exited |-> 0, nr_process_spawns |-> 0]
    /\ nevents = 0

\* ------------------------------------------------------- views of a task
\* a test that takes a signal stop for the seccomp event as well
task_state_is_stop(task) == task.state[1] \in {"Event", "Stopped"}

\* TracedTask::task_state_is_seccomp
task_state_is_seccomp(task) == task.state = Event(PTRACE_EVENT_SECCOMP)

\* TracedTask::exited: the exit code of a task whose state is Exited
exited(task) == IF task.state[1] = "Exited" THEN task.state[2] ELSE None

Live(t) == thr[t].sched \in {"running", "stopped"}
MemoryMap(t) == rc[tasks[t].memory_map].memory_map
StubPages(t) == rc[tasks[t].stub_pages].stub_pages
Unpatchable(t) == rc[tasks[t].unpatchable_syscalls].unpatchable_syscalls
Patched(t) == rc[tasks[t].patched_syscalls].patched_syscalls
Lockset(t) == rc[tasks[t].syscall_patch_lockset].syscall_patch_lockset

Range(s) == {s[k] : k \in 1..Len(s)}

\* ------------------------------------------------- remote memory of a task
\* ptrace::read of the word at the syscall instruction of the site whose
\* post-syscall rip is addr + SYSCALL_INSN_SIZE
PeekInsn(t, addr) == space[thr[t].aspace].insn[addr + SYSCALL_INSN_SIZE]

\* an is_syscall_insn that does not look at the bytes
is_syscall_insn_blind(t, addr) == PeekInsn(t, addr) = PeekInsn(t, addr)

is_syscall_insn(t, addr) == (PeekInsn(t, addr) % (SYSCALL_INSN_MASK + 1)) = SYSCALL_INSN

\* the 16 bytes at rip as the tracee's memory holds them now
PeekTail(t, rip) ==
    IF space[thr[t].aspace].insn[rip] = SYSCALL_INSN THEN SiteTail(rip) ELSE PatchedTail

IsPrefix(p, bs) == Len(p) <= Len(bs) /\ \A k \in 1..Len(p) : p[k] = bs[k]

\* a search that compares the first three bytes of an entry only
find_syscall_hook_in3(bytes) ==
    LET hits == {k \in 1..Len(SYSCALL_HOOKS) :
                   IsPrefix(SubSeq(SYSCALL_HOOKS[k], 1, 3), bytes)}
    IN  IF hits = {} THEN None ELSE CHOOSE k \in hits : \A j \in hits : k <= j

\* index (from 1) of the first catalog entry that is a prefix of the bytes
find_syscall_hook_in(bytes) ==
    LET hits == {k \in 1..Len(SYSCALL_HOOKS) : IsPrefix(SYSCALL_HOOKS[k], bytes)}
    IN  IF hits = {} THEN None ELSE CHOOSE k \in hits : \A j \in hits : k <= j

find_syscall_hook(t, rip) == find_syscall_hook_in(PeekTail(t, rip))

libtrampoline_load_address(t) ==
    IF space[thr[t].aspace].loaded THEN TRAMPOLINE_BASE ELSE None

is_patched_syscall(t, rip) == rip \in Range(Patched(t))

\* ------------------------------------------------------ task construction
\* a cloned() that snapshots the collections as forked() does
cloned_snapshot(self, child) ==
    [task |-> [pid |-> tasks[self].pid, ppid |-> tasks[self].pid,
               in_vfork |-> FALSE, seccomp_hook_size |-> None, state |-> Ready,
               ldpreload_address |-> tasks[self].ldpreload_address,
               injected_mmap_page |-> tasks[self].injected_mmap_page,
               signal_to_deliver |-> None,
               memory_map |-> child, stub_pages |-> child,
               unpatchable_syscalls |-> child, patched_syscalls |-> child,
               syscall_patch_lockset |-> child],
     cell |-> [memory_map |-> MemoryMap(self),
               stub_pages |-> StubPages(self),
               unpatchable_syscalls |-> Unpatchable(self),
               patched_syscalls |-> Patched(self),
               syscall_patch_lockset |-> Lockset(self)]]

\* TracedTask::cloned: the record of the new thread and the contents of the
\* cell numbered by its tid (no new Rc is made: the cell stays unused).
cloned(self, child) ==
    [task |-> [pid |-> tasks[self].pid, ppid |-> tasks[self].pid,
               in_vfork |-> FALSE, seccomp_hook_size |-> None, state |-> Ready,
               ldpreload_address |-> tasks[self].ldpreload_address,
               injected_mmap_page |-> tasks[self].injected_mmap_page,
               signal_to_deliver |-> None,
               memory_map |-> tasks[self].memory_map,
               stub_pages |-> tasks[self].stub_pages,
               unpatchable_syscalls |-> tasks[self].unpatchable_syscalls,
               patched_syscalls |-> tasks[self].patched_syscalls,
               syscall_patch_lockset |-> tasks[self].syscall_patch_lockset],
     cell |-> rc[child]]

\* a forked() that clones the Rc of the patched set instead of its contents
forked_alias(self, child) ==
    [task |-> [pid |-> child, ppid |-> tasks[self].pid,
               in_vfork |-> FALSE, seccomp_hook_size |-> None, state |-> Ready,
               ldpreload_address |-> tasks[self].ldpreload_address,
               injected_mmap_page |-> tasks[self].injected_mmap_page,
               signal_to_deliver |-> None,
               memory_map |-> child, stub_pages |-> child,
               unpatchable_syscalls |-> child,
               patched_syscalls |-> tasks[self].patched_syscalls,
               syscall_patch_lockset |-> child],
     cell |-> [memory_map |-> MemoryMap(self),
               stub_pages |-> StubPages(self),
               unpatchable_syscalls |-> Unpatchable(self),
               patched_syscalls |-> <<>>,
               syscall_patch_lockset |-> RemoteRWLock_new]]

\* a forked() that starts the child with an empty patched set
forked_unpatched(self, child) ==
    [task |-> [pid |-> child, ppid |-> tasks[self].pid,
               in_vfork |-> FALSE, seccomp_hook_size |-> None, state |-> Ready,
               ldpreload_address |-> tasks[self].ldpreload_address,
               injected_mmap_page |-> tasks[self].injected_mmap_page,
               signal_to_deliver |-> None,
               memory_map |-> child, stub_pages |-> child,
               unpatchable_syscalls |-> child, patched_syscalls |-> child,
               syscall_patch_lockset |-> child],
     cell |-> [memory_map |-> MemoryMap(self),
               stub_pages |-> StubPages(self),
               unpatchable_syscalls |-> Unpatchable(self),
               patched_syscalls |-> <<>>,
               syscall_patch_lockset |-> RemoteRWLock_new]]

\* a forked() that starts the child with an empty stub-page list
forked_no_stubs(self, child) ==
    [task |-> [pid |-> child, ppid |-> tasks[self].pid,
               in_vfork |-> FALSE, seccomp_hook_size |-> None, state |-> Ready,
               ldpreload_address |-> tasks[self].ldpreload_address,
               injected_mmap_page |-> tasks[self].injected_mmap_page,
               signal_to_deliver |-> None,
               memory_map |-> child, stub_pages |-> child,
               unpatchable_syscalls |-> child, patched_syscalls |-> child,
               syscall_patch_lockset |-> child],
     cell |-> [memory_map |-> MemoryMap(self),
               stub_pages |-> <<>>,
               unpatchable_syscalls |-> Unpatchable(self),
               patched_syscalls |-> Patched(self),
               syscall_patch_lockset |-> RemoteRWLock_new]]

\* a forked() that takes the child's unpatchable set from the parent's
\* patched set
forked_unpatchable_from_patched(self, child) ==
    [task |-> [pid |-> child, ppid |-> tasks[self].pid,
               in_vfork |-> FALSE, seccomp_hook_size |-> None, state |-> Ready,
               ldpreload_address |-> tasks[self].ldpreload_address,
               injected_mmap_page |-> tasks[self].injected_mmap_page,
               signal_to_deliver |-> None,
               memory_map |-> child, stub_pages |-> child,
               unpatchable_syscalls |-> child, patched_syscalls |-> child,
               syscall_patch_lockset |-> child],
     cell |-> [memory_map |-> MemoryMap(self),
               stub_pages |-> StubPages(self),
               unpatchable_syscalls |-> Patched(self),
               patched_syscalls |-> Patched(self),
               syscall_patch_lockset |-> RemoteRWLock_new]]

\* TracedTask::forked: every collection is a new Rc, numbered by the child's
\* tid, holding a clone of the parent's contents; the lockset is a new one.
forked(self, child) ==
    [task |-> [pid |-> child, ppid |-> tasks[self].pid,
               in_vfork |-> FALSE, seccomp_hook_size |-> None, state |-> Ready,
               ldpreload_address |-> tasks[self].ldpreload_address,
               injected_mmap_page |-> tasks[self].injected_mmap_page,
               signal_to_deliver |-> None,
               memory_map |-> child, stub_pages |-> child,
               unpatchable_syscalls |-> child, patched_syscalls |-> child,
               syscall_patch_lockset |-> child],
     cell |-> [memory_map |-> MemoryMap(self),
               stub_pages |-> StubPages(self),
               unpatchable_syscalls |-> Unpatchable(self),
               patched_syscalls |-> Patched(self),
               syscall_patch_lockset |-> RemoteRWLock_new]]

\* task_exec_reset, the fields of the record
task_exec_reset(task) ==
    [task EXCEPT !.ldpreload_address = None,
                 !.injected_mmap_page = INJECTED_MMAP_PAGE,
                 !.signal_to_deliver = None,
                 !.state = Exited(0),
                 !.in_vfork = FALSE,
                 !.seccomp_hook_size = None]

\* a reset that forgets to empty the patched set
exec_reset_cells_keep_patched(heap, task) ==
    LET h2 == [heap EXCEPT ![task.unpatchable_syscalls].unpatchable_syscalls = <<>>]
        h3 == [h2 EXCEPT ![task.memory_map].memory_map = <<>>]
        h4 == [h3 EXCEPT ![task.stub_pages].stub_pages = <<>>]
    IN  [h4 EXCEPT ![task.syscall_patch_lockset].syscall_patch_lockset = RemoteRWLock_new]

\* task_exec_reset, the cells: each collection is emptied in place
exec_reset_cells(heap, task) ==
    LET h1 == [heap EXCEPT ![task.patched_syscalls].patched_syscalls = <<>>]
        h2 == [h1 EXCEPT ![task.unpatchable_syscalls].unpatchable_syscalls = <<>>]
        h3 == [h2 EXCEPT ![task.memory_map].memory_map = <<>>]
        h4 == [h3 EXCEPT ![task.stub_pages].stub_pages = <<>>]
    IN  [h4 EXCEPT ![task.syscall_patch_lockset].syscall_patch_lockset = RemoteRWLock_new]

\* a patch_syscall_with that does not look at in_vfork
patch_precheck_no_vfork(t, rip) ==
    IF tasks[t].ldpreload_address = None THEN "not_loaded"
    ELSE IF is_patched_syscall(t, rip) THEN "unreachable"
    ELSE IF rip \in Range(Unpatchable(t)) THEN "unpatchable"
    ELSE "lock"

\* ------------------------------------------------------------ patch routine
\* patch_syscall_with up to the lock exchange: why the attempt ends, or "lock"
patch_precheck(t, rip) ==
    IF tasks[t].in_vfork THEN "vfork"
    ELSE IF tasks[t].ldpreload_address = None THEN "not_loaded"
    ELSE IF is_patched_syscall(t, rip) THEN "unreachable"
    ELSE IF rip \in Range(Unpatchable(t)) THEN "unpatchable"
    ELSE "lock"

\* a lock exchange whose write lock is never to be had
lock_exchange_refused(L, tid, rip) ==
    [ok |-> FALSE, lock |-> try_read_unlock(L, tid, rip)]

\* patch_syscall_with, the lock exchange: the read lock is given up, then the
\* write lock is tried once
lock_exchange(L, tid, rip) ==
    LET L1 == try_read_unlock(L, tid, rip)
    IN  [ok |-> try_write_lock_ok(L1, tid, rip), lock |-> try_write_lock(L1, tid, rip)]

\* extended_jump_from_to: whether a stub page serves a site
page_serves(page, rip) ==
    LET start == page.address
        end == page.address + page.size
    IN  IF end <= rip THEN rip - start <= two_gb
        ELSE IF start >= rip THEN start + extended_jump_pages * PAGE - rip <= two_gb
        ELSE FALSE

\* extended_jump_from_to: the first stub page that serves the site, or None
find_stub_page(t, rip) ==
    LET ps == StubPages(t)
        hits == {k \in 1..Len(ps) : page_serves(ps[k], rip)}
    IN  IF hits = {} THEN None
        ELSE ps[CHOOSE k \in hits : \A j \in hits : k <= j].address

\* search_stub_page: the free slot nearest below the site, else the one
\* above it, if any is left
StubSlots(t, rip) ==
    LET base == rip - (rip % PAGE)
        mapped == {p.address : p \in space[thr[t].aspace].pages}
    IN  IF (base - 2 * PAGE) \notin mapped THEN {base - 2 * PAGE}
        ELSE {base + 2 * PAGE} \ mapped

\* decode_proc_maps as update_memory_map stores it: the program text, then
\* the anonymous mappings in address order
RECURSIVE SortPages(_)
SortPages(S) ==
    IF S = {} THEN <<>>
    ELSE LET m == CHOOSE p \in S : \A q \in S : p.address <= q.address
         IN  <<m>> \o SortPages(S \ {m})

decode_proc_maps(pages) ==
    <<[address |-> 16 * PAGE, prot |-> "r-x", stubs |-> FALSE]>> \o SortPages(pages)

\* the mapping at `at` after allocate_extended_jumps got as far as it did:
\* its protection, and whether the stubs were written to it
SetProt(pages, at, prot_, stubs_) ==
    {p \in pages : p.address # at}
        \cup {[address |-> at, prot |-> prot_, stubs |-> stubs_]}

AllocOutcomes == {"ok", "no_slot", "mmap_err", "poke_err", "mprotect_err"}

\* ---------------------------------------------------------- bookkeeping
Exists(t) == thr[t].sched \notin {"absent", "dead"}
VforkBlocked(t) == \E c \in Tasks : Exists(c) /\ thr[c].vfork_parent = t
CanStop(t) == thr[t].sched = "running" /\ nevents < MaxEvents /\ ~VforkBlocked(t)
Handling(t, st) == sup.pc = "idle" /\ thr[t].sched = "stopped" /\ tasks[t].state = st

\* the smallest address-space id that no thread other than t uses
FreeSpace(t) ==
    LET used == {thr[u].aspace : u \in {x \in Tasks \ {t} : Exists(x)}}
    IN  CHOOSE a \in Tasks : a \notin used /\ \A b \in Tasks : b \notin used => a <= b

\* The kernel frees an address space with its last thread, and an Rc cell is
\* freed with its last owner: what nothing refers to is blank.
CellFields ==
    {"memory_map", "stub_pages", "unpatchable_syscalls", "patched_syscalls",
     "syscall_patch_lockset"}

DropSpaces(sp, th) ==
    [a \in Tasks |->
        IF \E u \in Tasks : th[u].sched \notin {"absent", "dead"} /\ th[u].aspace = a
        THEN sp[a] ELSE FreshSpace]

DropCells(heap, tk, th) ==
    [h \in Tasks |->
        [f \in CellFields |->
            IF \E u \in Tasks :
                  th[u].sched \in {"running", "stopped"} /\ tk[u][f] = h
            THEN heap[h][f] ELSE EmptyCell[f]]]

\* a counter that counts down
Count_down(field) == [systrace_state EXCEPT ![field] = @ - 1]

Count(field) == [systrace_state EXCEPT ![field] = @ + 1]

\* a count of a ptraced call that leaves nr_syscalls
CountPtracedOnly ==
    [systrace_state EXCEPT !.nr_syscalls_ptraced = @ + 1]

CountPtraced ==
    [systrace_state EXCEPT !.nr_syscalls = @ + 1, !.nr_syscalls_ptraced = @ + 1]

\* --------------------------------------------------- the tracee and kernel
\* A thread in user code reaches the syscall instruction of a site that still
\* holds one: the seccomp filter stops it.
SeccompStop(t, r) ==
    /\ CanStop(t)
    /\ thr[t].inflight = NoRip
    /\ space[thr[t].aspace].insn[r] = SYSCALL_INSN
    /\ thr' = [thr EXCEPT ![t].sched = "stopped", ![t].rip = r]
    /\ tasks' = [tasks EXCEPT ![t].state = Event(PTRACE_EVENT_SECCOMP), ![t].signal_to_deliver = None]
    /\ nevents' = nevents + 1
    /\ UNCHANGED <<rc, space, sup, systrace_state, probe>>

\* The kernel finishes (or interrupts) the syscall of a thread: syscall-exit
\* stop, at the rip the call was entered from or somewhere else.
SyscallExitStop(t, newrip, restart_) ==
    /\ CanStop(t)
    /\ thr[t].inflight # NoRip
    /\ newrip \in {thr[t].inflight, OtherRip}
    /\ restart_ => newrip = thr[t].inflight
    /\ thr' = [thr EXCEPT ![t].sched = "stopped", ![t].rip = newrip,
                          ![t].restart = restart_]
    /\ tasks' = [tasks EXCEPT ![t].state = Syscall, ![t].signal_to_deliver = None]
    /\ nevents' = nevents + 1
    /\ UNCHANGED <<rc, space, sup, systrace_state, probe>>

\* fork, vfork or clone in the kernel: the child exists from here on, with a
\* copy of the address space (fork) or inside the parent's (vfork, clone).
ForkStop(t, kind) ==
    /\ CanStop(t)
    /\ \E c \in Tasks : thr[c].sched = "absent"
    /\ LET c == CHOOSE x \in Tasks :
                  thr[x].sched = "absent" /\ \A y \in Tasks : thr[y].sched = "absent" => x <= y
       IN  /\ thr' = [thr EXCEPT
                        ![t].sched = "stopped",
                        ![t].newborn = c,
                        ![c] = [NoThread EXCEPT
                                  !.sched = "sigstop",
                                  !.aspace = IF kind = PTRACE_EVENT_FORK
                                             THEN FreeSpace(c) ELSE thr[t].aspace,
                                  !.tgid = IF kind = PTRACE_EVENT_CLONE THEN thr[t].tgid ELSE c,
                                  !.vfork_parent = IF kind = PTRACE_EVENT_VFORK THEN t ELSE 0]]
           /\ space' = IF kind = PTRACE_EVENT_FORK
                       THEN [space EXCEPT ![FreeSpace(c)] = space[thr[t].aspace]]
                       ELSE space
    /\ tasks' = [tasks EXCEPT ![t].state = Event(kind), ![t].signal_to_deliver = None]
    /\ nevents' = nevents + 1
    /\ UNCHANGED <<rc, sup, systrace_state, probe>>

\* execve succeeded: the thread, alone in its process, has a new image.
ExecStop(t) ==
    /\ CanStop(t)
    /\ \A u \in Tasks \ {t} : Exists(u) => thr[u].tgid # thr[t].tgid
    /\ thr' = [thr EXCEPT ![t].sched = "stopped",
                          ![t].aspace = FreeSpace(t),
                          ![t].vfork_parent = 0,
                          ![t].inflight = IF @ = NoRip THEN NoRip ELSE OtherRip]
    /\ space' = DropSpaces([space EXCEPT ![FreeSpace(t)] = FreshSpace], thr')
    /\ tasks' = [tasks EXCEPT ![t].state = Event(PTRACE_EVENT_EXEC), ![t].signal_to_deliver = None]
    /\ nevents' = nevents + 1
    /\ UNCHANGED <<rc, sup, systrace_state, probe>>

ExitStop(t) ==
    /\ CanStop(t)
    /\ thr' = [thr EXCEPT ![t].sched = "stopped"]
    /\ tasks' = [tasks EXCEPT ![t].state = Event(PTRACE_EVENT_EXIT), ![t].signal_to_deliver = None]
    /\ nevents' = nevents + 1
    /\ UNCHANGED <<rc, space, sup, systrace_state, probe>>

\* The trampoline library publishes its load base in the tracee.
TrampolineLoad(t) ==
    /\ thr[t].sched = "running"
    /\ thr[t].inflight = NoRip
    /\ ~space[thr[t].aspace].loaded
    /\ space' = [space EXCEPT ![thr[t].aspace].loaded = TRUE]
    /\ UNCHANGED <<tasks, rc, thr, sup, systrace_state, nevents, probe>>

\* ------------------------------------------------------------ the handlers
\* The driver loop continues a task as soon as its handler has returned it:
\* a task left at its seccomp stop goes on into the kernel with its syscall.
Resume(th, tk, t) ==
    [th EXCEPT ![t].sched = "running",
               ![t].rip = NoRip,
               ![t].inflight = IF tk[t].state = Event(PTRACE_EVENT_SECCOMP)
                               THEN th[t].rip ELSE @]

\* do_ptrace_seccomp up to the read lock.  A site whose syscall instruction
\* is gone is skipped and re-synchronised; otherwise the read lock is taken,
\* or the handler stays in its retry loop.
do_ptrace_seccomp(t) ==
    /\ Handling(t, Event(PTRACE_EVENT_SECCOMP))
    /\ LET rip == thr[t].rip
           rip_before_syscall == rip - SYSCALL_INSN_SIZE
           ldp == IF tasks[t].ldpreload_address = None
                  THEN libtrampoline_load_address(t)
                  ELSE tasks[t].ldpreload_address
           hook == find_syscall_hook(t, rip)
           size == IF ldp # None /\ hook # None THEN Len(SYSCALL_HOOKS[hook]) ELSE None
           seen == [tasks EXCEPT ![t].ldpreload_address = ldp,
                                 ![t].seccomp_hook_size = size]
       IN  IF ~is_syscall_insn(t, rip_before_syscall)
           THEN /\ tasks' = [seen EXCEPT ![t].state = Stopped(SIGTRAP)]
                /\ thr' = Resume(thr, tasks', t)
                /\ UNCHANGED <<rc, sup>>
           ELSE /\ tasks' = seen
                /\ rc' = [rc EXCEPT ![tasks[t].syscall_patch_lockset].syscall_patch_lockset =
                                        try_read_lock(@, t, rip)]
                /\ sup' = [pc |-> IF try_read_lock_ok(Lockset(t), t, rip)
                                  THEN "locked" ELSE "spin",
                           tid |-> t, hook |-> hook]
                /\ UNCHANGED thr
    /\ UNCHANGED <<space, systrace_state, nevents, probe>>

\* do_ptrace_seccomp from the read lock on, with patch_syscall_with up to its
\* write lock.  Without a patch attempt, or with one that ends early, the
\* syscall is left to the kernel and counted as ptraced.
do_ptrace_seccomp_locked(t) ==
    /\ sup.pc = "locked" /\ sup.tid = t
    /\ LET rip == thr[t].rip
           attempt == ~(tasks[t].ldpreload_address = None \/ sup.hook = None)
           why == IF attempt THEN patch_precheck(t, rip) ELSE "no_attempt"
           x == lock_exchange(Lockset(t), t, rip)
       IN  CASE why = "unreachable" ->
                  /\ sup' = [sup EXCEPT !.pc = "panic"]
                  /\ UNCHANGED <<rc, thr, systrace_state>>
             [] why = "lock" /\ x.ok ->
                  /\ rc' = [rc EXCEPT ![tasks[t].syscall_patch_lockset].syscall_patch_lockset = x.lock]
                  /\ sup' = [sup EXCEPT !.pc = "writing"]
                  /\ UNCHANGED <<thr, systrace_state>>
             [] OTHER ->
                  /\ rc' = IF why = "lock"
                           THEN [rc EXCEPT ![tasks[t].syscall_patch_lockset].syscall_patch_lockset = x.lock]
                           ELSE rc
                  /\ systrace_state' = CountPtraced
                  /\ sup' = Idle
                  /\ thr' = Resume(thr, tasks, t)
    /\ UNCHANGED <<tasks, space, nevents, probe>>

\* What patch_syscall_with does under the write lock, given how its remote
\* operations end: skip_seccomp_syscall, extended_jump_from_to (with
\* allocate_extended_jumps when no stub page serves the site), the push to the
\* patched set, patch_syscall_at and the release of the write lock.
\* Gives the new task record, cells and address space, and whether it patched.
patch_under_write_lock(t, skip_ok, outcome, at, sigchld) ==
    LET rip == thr[t].rip
        a == thr[t].aspace
        found == find_stub_page(t, rip)
        injected == skip_ok /\ found = None /\ outcome # "no_slot"
        mapped == injected /\ outcome # "mmap_err"
        recorded == mapped
        alloc_ok == mapped /\ outcome = "ok"
        ok == skip_ok /\ (found # None \/ alloc_ok)
        task1 == [tasks[t] EXCEPT
                    !.state = IF skip_ok THEN Stopped(SIGTRAP) ELSE @,
                    !.signal_to_deliver = IF injected /\ sigchld THEN SIGCHLD ELSE @]
        pages1 == IF mapped
                  THEN SetProt(space[a].pages, at,
                               IF outcome = "poke_err" \/ outcome = "mprotect_err"
                               THEN "rwx" ELSE "r-x",
                               outcome # "poke_err")
                  ELSE space[a].pages
        c1 == IF recorded
              THEN [rc EXCEPT ![tasks[t].stub_pages].stub_pages =
                       Append(@, [address |-> at, size |-> extended_jump_pages * PAGE,
                                  allocated |-> Len(SYSCALL_HOOKS)])]
              ELSE rc
        c2 == IF alloc_ok
              THEN [c1 EXCEPT ![tasks[t].memory_map].memory_map = decode_proc_maps(pages1)]
              ELSE c1
        c3 == IF ok
              THEN [c2 EXCEPT ![tasks[t].patched_syscalls].patched_syscalls = Append(@, rip)]
              ELSE c2
        c4 == IF ok
              THEN [c3 EXCEPT ![tasks[t].syscall_patch_lockset].syscall_patch_lockset =
                       try_write_unlock(@, t, rip)]
              ELSE c3
        sp1 == [space EXCEPT ![a].pages = pages1]
        sp2 == IF ok
               THEN [sp1 EXCEPT ![a].insn[rip] = CALL_OPCODE, ![a].rewrites[rip] = @ + 1]
               ELSE sp1
    IN  [task |-> task1, cells |-> c4, space |-> sp2, patched |-> ok]

\* do_ptrace_seccomp, the rest of patch_syscall_with and the counters
do_ptrace_seccomp_writing(t) ==
    /\ sup.pc = "writing" /\ sup.tid = t
    /\ \E skip_ok \in BOOLEAN, outcome \in AllocOutcomes,
          at \in StubSlots(t, thr[t].rip) \cup {0}, sigchld \in BOOLEAN :
         LET needs_page == skip_ok /\ find_stub_page(t, thr[t].rip) = None
             r == patch_under_write_lock(t, skip_ok, outcome, at, sigchld)
         IN  /\ IF needs_page /\ outcome # "no_slot" THEN at # 0 ELSE at = 0
             /\ needs_page \/ outcome = "ok"
             /\ (needs_page /\ outcome # "no_slot") \/ ~sigchld
             /\ tasks' = [tasks EXCEPT ![t] = r.task]
             /\ rc' = r.cells
             /\ space' = r.space
             /\ systrace_state' =
                  IF r.patched THEN Count("nr_syscalls_patched") ELSE CountPtraced
    /\ sup' = Idle
    /\ thr' = Resume(thr, tasks', t)
    /\ UNCHANGED <<nevents, probe>>

\* handle_syscall_exit
handle_syscall_exit(t) ==
    /\ Handling(t, Syscall)
    /\ IF thr[t].restart
       THEN /\ thr' = Resume([thr EXCEPT ![t].restart = FALSE], tasks, t)
            /\ UNCHANGED <<tasks, rc>>
       ELSE /\ tasks' = [tasks EXCEPT ![t].seccomp_hook_size = None,
                                      ![t].state = Running]
            /\ rc' = [rc EXCEPT ![tasks[t].syscall_patch_lockset].syscall_patch_lockset =
                                    try_read_unlock(@, t, thr[t].rip)]
            /\ thr' = Resume([thr EXCEPT ![t].inflight = NoRip], tasks', t)
    /\ UNCHANGED <<space, sup, systrace_state, nevents, probe>>

\* do_ptrace_fork, do_ptrace_vfork and do_ptrace_clone: the record of the new
\* task, its SIGSTOP awaited and the child resumed
Attach(t, made, vfork_, counter) ==
    LET c == thr[t].newborn
    IN  /\ tasks' = [tasks EXCEPT ![c] = [made.task EXCEPT !.in_vfork = vfork_]]
        /\ rc' = [rc EXCEPT ![c] = made.cell]
        /\ thr' = Resume([thr EXCEPT ![t].newborn = 0, ![c].sched = "running"],
                         tasks', t)
        /\ systrace_state' =
             [systrace_state EXCEPT !.nr_syscalls = @ + 1,
                                    !.nr_syscalls_ptraced = @ + 1,
                                    ![counter] = @ + 1]
        /\ UNCHANGED <<space, sup, nevents, probe>>

do_ptrace_fork(t) ==
    /\ Handling(t, Event(PTRACE_EVENT_FORK))
    /\ Attach(t, forked(t, thr[t].newborn), FALSE, "nr_forked")

do_ptrace_vfork(t) ==
    /\ Handling(t, Event(PTRACE_EVENT_VFORK))
    /\ Attach(t, forked(t, thr[t].newborn), TRUE, "nr_forked")

do_ptrace_clone(t) ==
    /\ Handling(t, Event(PTRACE_EVENT_CLONE))
    /\ Attach(t, cloned(t, thr[t].newborn), FALSE, "nr_cloned")

\* do_ptrace_exec: pre-init, the reset of the task, the injected mmap of the
\* shared-state page (its result is unwrapped) and the spawn counter
do_ptrace_exec(t) ==
    /\ Handling(t, Event(PTRACE_EVENT_EXEC))
    /\ \E mmap_ok \in BOOLEAN, sigchld \in BOOLEAN :
         /\ tasks' = [tasks EXCEPT ![t] =
                        [task_exec_reset(tasks[t]) EXCEPT
                           !.signal_to_deliver = IF sigchld THEN SIGCHLD ELSE @]]
         /\ rc' = exec_reset_cells(rc, tasks[t])
         /\ IF mmap_ok
            THEN /\ systrace_state' = Count("nr_process_spawns")
                 /\ thr' = Resume(thr, tasks', t)
                 /\ UNCHANGED sup
            ELSE /\ sup' = [pc |-> "panic", tid |-> t, hook |-> None]
                 /\ UNCHANGED <<thr, systrace_state>>
    /\ UNCHANGED <<space, nevents, probe>>

\* do_ptrace_event_exit: the task is detached and its record dropped
do_ptrace_event_exit(t) ==
    /\ Handling(t, Event(PTRACE_EVENT_EXIT))
    /\ systrace_state' = Count("nr_exited")
    /\ thr' = [thr EXCEPT ![t] = [NoThread EXCEPT !.sched = "dead"]]
    /\ tasks' = [tasks EXCEPT ![t] = new(t)]
    /\ rc' = DropCells(rc, tasks', thr')
    /\ space' = DropSpaces(space, thr')
    /\ UNCHANGED <<sup, nevents, probe>>

\* ------------------------------------------------------------ specification
Next ==
    \E t \in Tasks :
        \/ \E r \in Rips : SeccompStop(t, r)
        \/ \E newrip \in Rips \cup {OtherRip}, restart_ \in BOOLEAN :
              SyscallExitStop(t, newrip, restart_)
        \/ \E kind \in {PTRACE_EVENT_FORK, PTRACE_EVENT_VFORK, PTRACE_EVENT_CLONE} :
              ForkStop(t, kind)
        \/ ExecStop(t)
        \/ ExitStop(t)
        \/ TrampolineLoad(t)
        \/ do_ptrace_seccomp(t)
        \/ do_ptrace_seccomp_locked(t)
        \/ do_ptrace_seccomp_writing(t)
        \/ handle_syscall_exit(t)
        \/ do_ptrace_fork(t)
        \/ do_ptrace_vfork(t)
        \/ do_ptrace_clone(t)
        \/ do_ptrace_exec(t)
        \/ do_ptrace_event_exit(t)

Spec == Init /\ [][Next]_vars

\* ------------------------------------- extended_jump_from_to on its own
\* The stub lookup applied to one site and a stub-page list of one page, for
\* sites and pages around the two ends of the reach.
MaxJumpPage == 20

\* stubs::extended_jump_size: the bytes of one stub
extended_jump_size == 16

\* extended_jump_offset_from_stub_page: hook_index counts from 0
extended_jump_offset_from_stub_page(hook) == (hook - 1) * extended_jump_size

JumpRips ==
    {n * PAGE + d : n \in 9..11, d \in {0, 2, 3, 256, PAGE - 2, PAGE - 1}}

JumpPages ==
    {[address |-> k * PAGE, size |-> extended_jump_pages * PAGE,
      allocated |-> Len(SYSCALL_HOOKS)] : k \in 0..MaxJumpPage}

InitJump ==
    /\ \E rip \in JumpRips, hook \in 1..Len(SYSCALL_HOOKS) :
          probe = [pc |-> "lookup", rip |-> rip, hook |-> hook, stub |-> None]
    /\ \E page \in JumpPages :
          rc = [h \in Tasks |->
                  IF h = 1 THEN [EmptyCell EXCEPT !.stub_pages = <<page>>]
                  ELSE EmptyCell]
    /\ tasks = [t \in Tasks |-> new(t)]
    /\ thr = [t \in Tasks |->
                IF t = 1
                THEN [NoThread EXCEPT !.sched = "stopped", !.aspace = 1, !.tgid = 1]
                ELSE NoThread]
    /\ space = [a \in Tasks |-> FreshSpace]
    /\ sup = Idle
    /\ systrace_state =
         [nr_syscalls |-> 0, nr_syscalls_ptraced |-> 0, nr_syscalls_patched |-> 0,
          nr_forked |-> 0, nr_cloned |-> 0, nr_exited |-> 0, nr_process_spawns |-> 0]
    /\ nevents = 0

\* extended_jump_from_to: the address of the stub of the hook in the first
\* page that serves the site; with no such page it goes on to
\* allocate_extended_jumps, which is not followed here
extended_jump_from_to(t) ==
    /\ probe.pc = "lookup"
    /\ LET page_address == find_stub_page(t, probe.rip)
       IN  probe' =
             IF page_address = None
             THEN [probe EXCEPT !.pc = "allocate"]
             ELSE [probe EXCEPT
                     !.pc = "found",
                     !.stub = page_address + extended_jump_offset_from_stub_page(probe.hook)]
    /\ UNCHANGED <<tasks, rc, thr, space, sup, systrace_state, nevents>>

NextJump == extended_jump_from_to(1)

SpecJump == InitJump /\ [][NextJump]_vars

\* ------------------------------------- remote_do_syscall_at on its own
\* Registers are 64 bits wide in the code and 30 bits wide here.
U64 == 1073741824

ToU64(i) == i % U64
ToI64(x) == IF x >= U64 \div 2 THEN x - U64 ELSE x

\* the part of user_regs_struct that the injection or the kernel touches,
\* and rsp for the rest
InjectRegs ==
    {[orig_rax |-> 1, rax |-> ToU64(0 - 38), rdi |-> 1, rsi |-> 4 * PAGE, rdx |-> 12,
      r10 |-> 0, r8 |-> 0, r9 |-> 0, rip |-> SiteRip(1), rcx |-> SiteRip(1),
      rsp |-> 32 * PAGE],
     [orig_rax |-> ToU64(0 - 1), rax |-> 0, rdi |-> 3, rsi |-> 0, rdx |-> 0,
      r10 |-> 7, r8 |-> ToU64(0 - 1), r9 |-> 5, rip |-> OtherRip, rcx |-> 0,
      rsp |-> 33 * PAGE]}

\* SYS_mmap and SYS_mprotect
InjectSyscalls == {9, 10}

\* the untraced and the traced entry of the injected page
InjectEntries == {INJECTED_MMAP_PAGE + 8, INJECTED_MMAP_PAGE + 16}

\* what the kernel leaves in rax, as a signed value
InjectReturns ==
    {0 - (U64 \div 2), 0 - 4097, 0 - 4096, 0 - 4095, 0 - 4094, 0 - 12, 0 - 2, 0 - 1,
     0, 1, 4095, 4096, 14 * PAGE, (U64 \div 2) - 1}

\* WaitStatus: a stop by SIGTRAP, SIGCHLD or SIGSEGV, a ptrace exit event,
\* and the tracee killed or exited
WaitStopped(sig) == <<"Stopped", sig>>
WaitPtraceEvent(ev) == <<"PtraceEvent", ev>>
WaitSignaled(sig) == <<"Signaled", sig>>
WaitExited(code) == <<"Exited", code>>

InjectStatuses ==
    {WaitStopped(SIGTRAP), WaitStopped(SIGCHLD), WaitStopped(11),
     WaitPtraceEvent(PTRACE_EVENT_EXIT), WaitSignaled(9), WaitExited(1)}

\* remote_do_syscall_at has not returned
NoResult == [kind |-> "None", value |-> 0]

\* a tracee that waitpid reported as killed or exited has no registers
TraceeGone(status) == status[1] \in {"Signaled", "Exited"}

InitInject ==
    /\ \E regs \in InjectRegs, nr \in InjectSyscalls, a0 \in {0, 14 * PAGE},
          entry \in InjectEntries :
          probe = [pc |-> "enter", regs |-> regs, before |-> regs,
                   oldregs |-> regs, newregs |-> regs,
                   nr |-> nr, entry |-> entry,
                   args |-> <<a0, PAGE, 7, 50, ToU64(0 - 1), 0>>,
                   status |-> WaitStopped(0), returned |-> 0, pending |-> None,
                   result |-> NoResult]
    /\ \E pending \in {None, SIGCHLD, 10} :
          tasks = [t \in Tasks |->
                     IF t = 1 THEN [new(t) EXCEPT !.signal_to_deliver = pending]
                     ELSE new(t)]
    /\ rc = [h \in Tasks |-> EmptyCell]
    /\ thr = [t \in Tasks |->
                IF t = 1
                THEN [NoThread EXCEPT !.sched = "stopped", !.aspace = 1, !.tgid = 1]
                ELSE NoThread]
    /\ space = [a \in Tasks |-> FreshSpace]
    /\ sup = Idle
    /\ systrace_state =
         [nr_syscalls |-> 0, nr_syscalls_ptraced |-> 0, nr_syscalls_patched |-> 0,
          nr_forked |-> 0, nr_cloned |-> 0, nr_exited |-> 0, nr_process_spawns |-> 0]
    /\ nevents = 0

\* a restore that leaves the tracee with the registers of the injected call
restore_nothing(oldregs, newregs) == newregs

\* remote_do_syscall_at: task.setregs(oldregs)
restore_regs(oldregs, newregs) == oldregs

\* a conversion that takes -4096 for an error too
syscall_result_inclusive(rax) ==
    IF rax >= ToU64(0 - 4096)
    THEN [kind |-> "Err", value |-> 0 - ToI64(rax)]
    ELSE [kind |-> "Ok", value |-> ToI64(rax)]

\* remote_do_syscall_at: the result from the rax read back
syscall_result(rax) ==
    IF rax > ToU64(0 - 4096)
    THEN [kind |-> "Err", value |-> 0 - ToI64(rax)]
    ELSE [kind |-> "Ok", value |-> ToI64(rax)]

\* remote_do_syscall_at up to the wait: the registers are saved, loaded with
\* the call and the tracee is resumed
remote_do_syscall_at(t) ==
    /\ probe.pc = "enter"
    /\ probe' = [probe EXCEPT
                   !.pc = "waiting",
                   !.pending = tasks[t].signal_to_deliver,
                   !.oldregs = probe.regs,
                   !.regs = [probe.regs EXCEPT
                               !.orig_rax = probe.nr, !.rax = probe.nr,
                               !.rdi = probe.args[1], !.rsi = probe.args[2],
                               !.rdx = probe.args[3], !.r10 = probe.args[4],
                               !.r8 = probe.args[5], !.r9 = probe.args[6],
                               !.rip = probe.entry]]
    /\ UNCHANGED <<tasks, rc, thr, space, sup, systrace_state, nevents>>

\* The tracee runs the injected call and stops, or is gone: rax holds what
\* the kernel returned, rcx and rip are past the call.
InjectedStop(t, status, ret) ==
    /\ probe.pc = "waiting"
    /\ probe' = [probe EXCEPT
                   !.pc = "waited",
                   !.status = status,
                   !.returned = ret,
                   !.regs = [@ EXCEPT !.rax = ToU64(ret), !.rcx = probe.entry + 5,
                                      !.rip = probe.entry + 6]]
    /\ UNCHANGED <<tasks, rc, thr, space, sup, systrace_state, nevents>>

\* remote_do_syscall_at from the wait on: the stop is matched, the registers
\* are read back and restored, and rax becomes the result.  On a status that
\* is neither stop it reads the registers for its panic message, and returns
\* the error of that read when the tracee is gone.
remote_do_syscall_at_waited(t) ==
    /\ probe.pc = "waited"
    /\ IF probe.status \in {WaitStopped(SIGTRAP), WaitStopped(SIGCHLD)}
       THEN /\ tasks' = [tasks EXCEPT ![t].signal_to_deliver =
                            IF probe.status = WaitStopped(SIGCHLD) THEN SIGCHLD ELSE @]
            /\ probe' = [probe EXCEPT
                           !.pc = "returned",
                           !.newregs = probe.regs,
                           !.regs = restore_regs(probe.oldregs, probe.regs),
                           !.result = syscall_result(probe.regs.rax)]
       ELSE /\ probe' = IF TraceeGone(probe.status)
                        THEN [probe EXCEPT !.pc = "returned",
                                           !.result = [kind |-> "Err", value |-> 3]]
                        ELSE [probe EXCEPT !.pc = "panic"]
            /\ UNCHANGED tasks
    /\ UNCHANGED <<rc, thr, space, sup, systrace_state, nevents>>

NextInject ==
    \/ remote_do_syscall_at(1)
    \/ \E status \in InjectStatuses, ret \in InjectReturns : InjectedStop(1, status, ret)
    \/ remote_do_syscall_at_waited(1)

SpecInject == InitInject /\ [][NextInject]_vars

\* ------------------------------------------------------------- properties
\* what a task sees through its five Rc handles
Collections(t) == [f \in CellFields |-> rc[tasks[t][f]][f]]

Siblings(t, u) == t # u /\ Live(t) /\ Live(u) /\ tasks[t].pid = tasks[u].pid

StoppedAtSeccomp(t, r) ==
    /\ thr[t].sched = "stopped"
    /\ tasks[t].state = Event(PTRACE_EVENT_SECCOMP)
    /\ thr[t].rip = r

Occurrences(seq, x) == Cardinality({k \in DOMAIN seq : seq[k] = x})

\* the step is one of the handler of t
HandlerStep(t) ==
    /\ thr[t].sched = "stopped"
    /\ \/ sup.pc = "idle" /\ (thr'[t] # thr[t] \/ sup'.tid = t)
       \/ sup.tid = t /\ sup' # sup

\* the step in which the parent p is handed its fork or vfork child c
ForkHandled(p, c) ==
    /\ Handling(p, Event(PTRACE_EVENT_FORK)) \/ Handling(p, Event(PTRACE_EVENT_VFORK))
    /\ thr[p].newborn = c
    /\ ~Live(c) /\ Live(c)'

\* C1: while a thread of the process has a kernel syscall in flight that it
\* entered from site r, no thread of the process rewrites the bytes of r.
C1_NoRewriteUnderInFlightSyscall ==
    [][\A r \in Rips :
          (/\ sup.pc = "writing"
           /\ space'[thr[sup.tid].aspace].rewrites[r] > space[thr[sup.tid].aspace].rewrites[r])
          => \A u \in Tasks :
                (Exists(u) /\ thr[u].tgid = thr[sup.tid].tgid) => thr[u].inflight # r]_vars

\* C2: no site of a lockset has a write holder together with a read holder
\* (the writer's own read included) or with a second write holder.
C2_WriteHolderIsAlone ==
    \A t \in Tasks, r \in Rips :
        Live(t) =>
            LET l == Lockset(t)[r]
            IN  l.writers # {} => (l.readers = {} /\ Cardinality(l.writers) = 1)

\* C3: a thread whose intercepted syscall went into the kernel from site r
\* holds the read lock of r until its syscall-exit stop has been handled.
C3_ReadLockHeldInKernel ==
    \A t \in Tasks :
        (Live(t) /\ thr[t].inflight \in Rips) => t \in Lockset(t)[thr[t].inflight].readers

\* C4: a site enters a patched set, or has its bytes rewritten, only in the
\* seccomp handler of a thread that knows the trampoline base, found a hook
\* for the site, is not in_vfork, does not list the site as unpatchable and
\* holds the write lock of the site; and that write lock is only ever taken
\* by the one try that follows the release of the thread's read lock.
C4_PatchOnlyWhenAllowed ==
    [][/\ \A t \in Tasks, r \in Rips :
            (/\ Live(t)
             /\ \/ /\ r \notin Range(Patched(t))
                   /\ r \in Range(rc'[tasks[t].patched_syscalls].patched_syscalls)
                \/ space'[thr[t].aspace].rewrites[r] > space[thr[t].aspace].rewrites[r])
            => /\ sup.pc = "writing"
               /\ thr[sup.tid].rip = r
               /\ tasks[sup.tid].ldpreload_address # None
               /\ find_syscall_hook(sup.tid, r) # None
               /\ ~tasks[sup.tid].in_vfork
               /\ r \notin Range(Unpatchable(sup.tid))
               /\ sup.tid \in Lockset(sup.tid)[r].writers
               /\ sup.tid \notin Lockset(sup.tid)[r].readers
       /\ (sup'.pc = "writing" /\ sup.pc # "writing")
            => /\ sup.pc = "locked" /\ sup'.tid = sup.tid
               /\ try_write_lock_ok(try_read_unlock(Lockset(sup.tid), sup.tid, thr[sup.tid].rip),
                                    sup.tid, thr[sup.tid].rip)]_vars

\* C4 happens: a thread has just patched a site under its write lock
C4_Witness ==
    \E t \in Tasks, r \in Rips :
        /\ Live(t) /\ sup.pc = "idle"
        /\ r \in Range(Patched(t))
        /\ space[thr[t].aspace].insn[r] = CALL_OPCODE
        /\ tasks[t].state = Stopped(SIGTRAP)
        /\ systrace_state.nr_syscalls_patched = 1

\* C5, as stated: of two sibling threads, not in_vfork and with a known
\* trampoline base, stopped at the seccomp event of one fresh hook-matching
\* site, the one handled first patches the site, so that the other finds it
\* patched.
C5_ExactlyOnePatches ==
    [][\A t \in Tasks, u \in Tasks, r \in Rips :
          (/\ Siblings(t, u)
           /\ StoppedAtSeccomp(t, r) /\ StoppedAtSeccomp(u, r)
           /\ sup.tid = t
           /\ space[thr[t].aspace].insn[r] = SYSCALL_INSN
           /\ find_syscall_hook(t, r) # None
           /\ r \notin Range(Patched(t))
           /\ tasks[t].ldpreload_address # None
           /\ ~tasks[t].in_vfork /\ ~tasks[u].in_vfork
           /\ thr'[t].sched = "running")
          => /\ space'[thr[t].aspace].rewrites[r] = 1
             /\ Occurrences(Patched(t)', r) = 1]_vars

\* C5, amended: a site is rewritten at most once and is at most once in a
\* patched set, so at most one of two sibling threads stopped at it patches
\* it.  The one handled first takes the write lock exactly when it knows
\* the trampoline base, is not in_vfork, the site is neither patched nor
\* unpatchable and no other thread holds a lock of the site; it then patches
\* the site or leaves its bytes as they were.  A thread whose handler finds
\* the site rewritten skips its syscall and writes nothing.
C5_AtMostOnePatches ==
    [][/\ \A a \in Tasks, r \in Rips : space'[a].rewrites[r] <= 1
       /\ \A t \in Tasks, r \in Rips : Live(t)' => Occurrences(Patched(t)', r) <= 1
       /\ \A t \in Tasks, u \in Tasks, r \in Rips :
            (/\ Siblings(t, u)
             /\ StoppedAtSeccomp(t, r) /\ StoppedAtSeccomp(u, r)
             /\ sup.tid = t /\ sup.hook # None /\ sup' # sup)
            => /\ sup.pc = "locked" =>
                    (sup'.pc = "writing" <=>
                        /\ tasks[t].ldpreload_address # None
                        /\ ~tasks[t].in_vfork
                        /\ r \notin Range(Patched(t)) \cup Range(Unpatchable(t))
                        /\ Lockset(t)[r].readers \subseteq {t}
                        /\ Lockset(t)[r].writers \subseteq {t})
               /\ sup.pc = "writing" =>
                    \/ /\ space'[thr[t].aspace].rewrites[r] = 1
                       /\ space'[thr[t].aspace].insn[r] = CALL_OPCODE
                       /\ Occurrences(Patched(t)', r) = 1
                       /\ thr'[t].inflight = NoRip
                    \/ /\ space'[thr[t].aspace].rewrites[r] = 0
                       /\ space'[thr[t].aspace].insn[r] = SYSCALL_INSN
                       /\ Occurrences(Patched(t)', r) = 0
       /\ \A t \in Tasks, r \in Rips :
            (/\ StoppedAtSeccomp(t, r)
             /\ space[thr[t].aspace].insn[r] # SYSCALL_INSN
             /\ HandlerStep(t))
            => /\ space' = space /\ rc' = rc
               /\ sup'.pc = "idle"
               /\ thr'[t].sched = "running" /\ thr'[t].inflight = NoRip
               /\ tasks'[t].state = Stopped(SIGTRAP)]_vars

\* C5 happens: one sibling has patched the site at which the other is still
\* stopped, and that other is handled next
C5_Witness ==
    \E t \in Tasks, u \in Tasks, r \in Rips :
        /\ Siblings(t, u) /\ sup.pc = "idle"
        /\ StoppedAtSeccomp(u, r)
        /\ space[thr[u].aspace].rewrites[r] = 1
        /\ Occurrences(Patched(u), r) = 1
        /\ tasks[t].state = Stopped(SIGTRAP) /\ thr[t].sched = "running"

\* C6: from its vfork event to its exec event a vfork child is in_vfork, and
\* while it is, no seccomp event makes its patched set grow.
C6_NoPatchInVforkChild ==
    [][\A c \in Tasks :
          /\ (Live(c) /\ thr[c].vfork_parent # 0) => tasks[c].in_vfork
          /\ (Live(c) /\ tasks[c].in_vfork /\ Live(c)' /\ tasks'[c].in_vfork)
               => Patched(c)' = Patched(c)]_vars

\* C7: when the exec event of a task has been handled, its patched set,
\* unpatchable set, stub pages and memory map are empty, its lockset has no
\* holder and its trampoline base is unknown.
C7_ExecResetsProcessState ==
    [][\A t \in Tasks :
          (Handling(t, Event(PTRACE_EVENT_EXEC)) /\ tasks'[t] # tasks[t])
          => /\ Patched(t)' = <<>>
             /\ Unpatchable(t)' = <<>>
             /\ StubPages(t)' = <<>>
             /\ MemoryMap(t)' = <<>>
             /\ \A r \in Rips : Lockset(t)'[r].readers = {} /\ Lockset(t)'[r].writers = {}
             /\ tasks'[t].ldpreload_address = None]_vars

\* C7 happens: the first process patched a site and has then been reset by
\* the handler of its exec event
C7_Witness ==
    /\ Live(1) /\ sup.pc = "idle"
    /\ tasks[1].state = Exited(0)
    /\ systrace_state.nr_syscalls_patched > 0
    /\ systrace_state.nr_forked = 0 /\ systrace_state.nr_cloned = 0
    /\ Patched(1) = <<>> /\ StubPages(1) = <<>>

\* C8: no step changes the collections of two tasks of different processes:
\* what a handler does to the collections of a fork or vfork child (the
\* reset at exec included) leaves those of the parent as they were, and the
\* other way round.
C8_ForkedCollectionsAreSeparate ==
    [][\A p \in Tasks, c \in Tasks :
          (/\ Live(p) /\ Live(c) /\ Live(p)' /\ Live(c)'
           /\ tasks[p].pid # tasks[c].pid)
          => ~(Collections(p)' # Collections(p) /\ Collections(c)' # Collections(c))]_vars

\* C8 happens: a fork child has patched a site that its parent has not
C8_Witness ==
    \E p \in Tasks, c \in Tasks :
        /\ Live(p) /\ Live(c)
        /\ tasks[c].pid # tasks[p].pid /\ tasks[c].ppid = tasks[p].pid
        /\ Patched(c) # <<>> /\ Patched(p) = <<>>

\* C9: the threads of one process see the same patched set, unpatchable set,
\* stub pages, memory map and lockset in every state.
C9_ThreadsShareCollections ==
    \A t \in Tasks, u \in Tasks : Siblings(t, u) => Collections(t) = Collections(u)

\* C9 happens: two threads of a process, a patched site and a held lock
C9_Witness ==
    \E t \in Tasks, u \in Tasks :
        /\ Siblings(t, u)
        /\ Patched(t) # <<>> /\ StubPages(u) # <<>>
        /\ Lockset(u) # RemoteRWLock_new

C11_PatchedSiteHasStubPage ==
    \A t \in Tasks :
        Live(t) =>
            \A r \in Range(Patched(t)) :
                \E p \in Range(StubPages(t)) :
                    /\ p.address >= r - two_gb
                    /\ p.address + p.size <= r + two_gb

\* C11 happens: a patched site with its stub page, in a process and in the
\* fork child it had afterwards
C11_Witness ==
    \E p \in Tasks, c \in Tasks :
        /\ Live(p) /\ Live(c)
        /\ tasks[c].pid # tasks[p].pid /\ tasks[c].ppid = tasks[p].pid
        /\ Patched(p) # <<>> /\ Patched(c) # <<>>
        /\ StubPages(c) # <<>>

\* the task is not waiting for the handler of its exec event
ExecHandled(t) == ~(thr[t].sched = "stopped" /\ tasks[t].state = Event(PTRACE_EVENT_EXEC))

\* C13: between handlers, every page in the stub-page list of a process is
\* mapped read and execute, not writable, in that process and holds the
\* stubs, also when the allocation that recorded it ended with an error.
C13_StubPagesReadExecPopulated ==
    sup.pc = "idle" =>
        \A t \in Tasks :
            (Live(t) /\ ExecHandled(t)) =>
                \A p \in Range(StubPages(t)) :
                    \E m \in space[thr[t].aspace].pages :
                        m.address = p.address /\ m.prot = "r-x" /\ m.stubs

C15_CountersNeverDecrease ==
    [][\A f \in DOMAIN systrace_state : systrace_state'[f] >= systrace_state[f]]_vars

\* C15 happens: the counters of patched and ptraced syscalls, of forks or
\* clones and of exits have all been counted up
C15_Witness ==
    /\ systrace_state.nr_syscalls_patched > 0
    /\ systrace_state.nr_syscalls_ptraced > 0
    /\ systrace_state.nr_forked + systrace_state.nr_cloned > 0
    /\ systrace_state.nr_exited > 0

\* the step ends the seccomp handler of t, which knew the trampoline base,
\* without a patch
PatchRefused(t) ==
    /\ sup.tid = t /\ sup.pc \in {"locked", "writing"} /\ sup'.pc = "idle"
    /\ tasks[t].ldpreload_address # None
    /\ systrace_state'.nr_syscalls_patched = systrace_state.nr_syscalls_patched

\* C16: when the seccomp handler refuses to patch a site (no hook matches,
\* the write lock is not to be had, the task is in_vfork, the site is
\* unpatchable), the site is in the unpatchable set when the handler returns.
C16_RefusalRecordedUnpatchable ==
    [][\A t \in Tasks :
          (/\ PatchRefused(t)
           /\ sup.pc = "locked"
           /\ \/ sup.hook = None
              \/ tasks[t].in_vfork
              \/ thr[t].rip \in Range(Unpatchable(t))
              \/ ~lock_exchange(Lockset(t), t, thr[t].rip).ok)
          => thr[t].rip \in Range(rc'[tasks'[t].unpatchable_syscalls].unpatchable_syscalls)]_vars

\* C17: when patch_syscall_with returns an error, the syscall of the stopped
\* thread has not been skipped: the thread is still at its seccomp stop, goes
\* into the kernel from the site, and the bytes of the site are unchanged.
C17_ErrorLeavesSyscallToKernel ==
    [][\A t \in Tasks :
          (PatchRefused(t) /\ sup.hook # None)
          => /\ tasks'[t].state = Event(PTRACE_EVENT_SECCOMP)
             /\ thr'[t].inflight = thr[t].rip
             /\ space'[thr[t].aspace].insn = space[thr[t].aspace].insn]_vars

\* C12: when the stub lookup accepts a page for a site, the displacement
\* from the end of the call written over the site (rip + 3) to each stub of
\* the page fits a signed rel32, and the page does not contain rip.
C12_AcceptedPageWithinRel32 ==
    probe.pc = "found" =>
        LET page == StubPages(1)[1]
        IN  /\ ~(page.address < probe.rip /\ probe.rip < page.address + page.size)
            /\ \A k \in 1..page.allocated :
                  LET disp == page.address + (k - 1) * extended_jump_size - (probe.rip + 3)
                  IN  0 - two_gb <= disp /\ disp <= two_gb - 1

\* C18: after an injected syscall that came back by a SIGTRAP or SIGCHLD
\* stop, whatever the kernel returned, the registers of the tracee are those
\* it had before the injection.
C18_RegistersRestored ==
    (probe.pc = "returned" /\ probe.status \in {WaitStopped(SIGTRAP), WaitStopped(SIGCHLD)})
        => probe.regs = probe.before

\* C18 happens: an injected call ended by SIGCHLD with a kernel error, and
\* the registers read back were not those from before
C18_Witness ==
    /\ probe.pc = "returned"
    /\ probe.status = WaitStopped(SIGCHLD)
    /\ probe.result.kind = "Err"
    /\ probe.newregs # probe.before
    /\ probe.regs = probe.before

\* C19: the injector returns an error with errno = -rax exactly when rax is
\* in -4095..-1 as a signed value, and rax as the result otherwise.
C19_ErrnoRange ==
    (probe.pc = "returned" /\ probe.status \in {WaitStopped(SIGTRAP), WaitStopped(SIGCHLD)})
        => IF probe.returned \in (0 - 4095)..(0 - 1)
           THEN probe.result = [kind |-> "Err", value |-> 0 - probe.returned]
           ELSE probe.result = [kind |-> "Ok", value |-> probe.returned]

\* C19 happens: the kernel returned -4096, which is no error
C19_Witness ==
    /\ probe.pc = "returned"
    /\ probe.status = WaitStopped(SIGTRAP)
    /\ probe.returned = 0 - 4096
    /\ probe.result.kind = "Ok"

\* C20: the stop that ends the wait of an injection: SIGTRAP is accepted and
\* leaves the pending signal as it was, SIGCHLD is accepted and becomes the
\* pending signal, any other status aborts the supervisor without a result.
C20_StopClassified ==
    probe.pc \in {"returned", "panic"} =>
        CASE probe.status = WaitStopped(SIGTRAP) ->
                 /\ probe.pc = "returned"
                 /\ tasks[1].signal_to_deliver = probe.pending
          [] probe.status = WaitStopped(SIGCHLD) ->
                 /\ probe.pc = "returned"
                 /\ tasks[1].signal_to_deliver = SIGCHLD
          [] OTHER ->
                 /\ probe.pc = "panic"
                 /\ probe.result = NoResult

\* the step is the one in which the seccomp handler of t, with a patch
\* attempt that got as far as the lock exchange, is refused the write lock
WriteLockRefused(t) ==
    /\ sup.pc = "locked" /\ sup.tid = t /\ sup' # sup
    /\ tasks[t].ldpreload_address # None /\ sup.hook # None
    /\ patch_precheck(t, thr[t].rip) = "lock"
    /\ ~try_write_lock_ok(try_read_unlock(Lockset(t), t, thr[t].rip), t, thr[t].rip)

\* C25: a thread that is refused the write lock of a site changes no byte of
\* the site and adds it to no set, so the site stays eligible; a patch
\* attempt at a site on which no other thread holds a lock gets the write
\* lock and goes on to patch.
C25_FailedWriteLockLeavesSiteEligible ==
    [][\A t \in Tasks :
          /\ WriteLockRefused(t)
                => /\ space' = space
                   /\ Patched(t)' = Patched(t)
                   /\ Unpatchable(t)' = Unpatchable(t)
                   /\ sup'.pc = "idle"
          /\ (/\ sup.pc = "locked" /\ sup.tid = t /\ sup' # sup
              /\ tasks[t].ldpreload_address # None /\ sup.hook # None
              /\ patch_precheck(t, thr[t].rip) = "lock"
              /\ Lockset(t)[thr[t].rip].readers \subseteq {t}
              /\ Lockset(t)[thr[t].rip].writers \subseteq {t})
                => sup'.pc = "writing"]_vars

\* C25 happens: a thread went into the kernel from a site after it was
\* refused the write lock (it holds no lock of the site), and the site has
\* been patched at a later event of a sibling
C25_Witness ==
    \E t \in Tasks, u \in Tasks, r \in Rips :
        /\ Siblings(t, u)
        /\ thr[u].inflight = r
        /\ tasks[u].ldpreload_address # None /\ tasks[u].seccomp_hook_size # None
        /\ u \notin Lockset(u)[r].readers /\ Lockset(u)[r].writers = {}
        /\ r \in Range(Patched(t))

\* the step is the seccomp handler of t finding no syscall instruction at
\* rip - 2
FoundPatched(t) ==
    /\ Handling(t, Event(PTRACE_EVENT_SECCOMP))
    /\ ~is_syscall_insn(t, thr[t].rip - SYSCALL_INSN_SIZE)
    /\ thr'[t] # thr[t]

C27_ExecLeavesTaskReady ==
    [][\A t \in Tasks :
          (Handling(t, Event(PTRACE_EVENT_EXEC)) /\ thr'[t].sched = "running")
          => /\ tasks'[t].state = Ready
             /\ exited(tasks'[t]) = None]_vars

\* ================================================================
\* handle_syscall_exit on its own: one thread stopped at the syscall-exit
\* stop of a syscall it entered from a site, with the read lock of the site
\* still held from the seccomp stop.  The registers of the stop, the signal
\* of the stop, the recorded hook size and the way of the thread through the
\* instructions after the site are the inputs.
ERESTARTSYS == 512
ERESTARTNOINTR == 513
ERESTARTNOHAND == 514
ERESTARTBLOCK == 516

\* a restart test that takes -ERESTARTBLOCK for a restart as well
should_restart_syscall_block(rax) ==
    ToI64(rax) \in {0 - ERESTARTSYS, 0 - ERESTARTNOINTR, 0 - ERESTARTNOHAND,
                    0 - ERESTARTBLOCK}

\* should_restart_syscall, the value res
should_restart_syscall(rax) ==
    IF ToI64(rax) = 0 - ERESTARTSYS THEN TRUE
    ELSE IF ToI64(rax) = 0 - ERESTARTNOINTR THEN TRUE
    ELSE IF ToI64(rax) = 0 - ERESTARTNOHAND THEN TRUE
    ELSE IF ToI64(rax) = 0 - ERESTARTBLOCK THEN FALSE
    ELSE FALSE

\* a loop test that takes the end of the hook for a part of it
inside_hook_closed(new_rip, rip, syscall_end) ==
    new_rip > rip /\ new_rip <= syscall_end

\* handle_syscall_exit, the test of its single-step loop
inside_hook(new_rip, rip, syscall_end) ==
    new_rip > rip /\ new_rip < syscall_end

\* rax at the stop: results, errors, the restart codes, and a large result
ExitRax ==
    {ToU64(0), ToU64(3), ToU64(0 - 4), ToU64(0 - ERESTARTSYS),
     ToU64(0 - ERESTARTNOINTR), ToU64(0 - ERESTARTNOHAND),
     ToU64(0 - ERESTARTBLOCK), ToU64(0 - 515), U64 \div 2 - ERESTARTSYS}

\* si_signo of the stop
ExitSignals == {SIGTRAP, SIGCHLD, 11}

ExitHookSizes == {None} \cup {Len(SYSCALL_HOOKS[h]) : h \in DOMAIN SYSCALL_HOOKS}

\* the rips the thread is at after each single step (as far as it is
\* stepped), for a hook of n bytes after rip r: straight through, instruction
\* by instruction, a jump out, a jump back, a stay
ExitPaths(r, n) ==
    {<<r + n, r + n + 5>>, <<r + 1, r + n, r + n + 2>>,
     <<r + 1, r + 2, r + n + 4>>, <<r + n - 1, r + 100>>, <<r>>,
     <<r + 1, r - 1>>, <<r + 1, r + 1, r + n, r + n + 1>>, <<r + n + 1>>}

InitExit ==
    /\ \E entry \in Rips, rip \in Rips \cup {OtherRip}, rax \in ExitRax,
          signo \in ExitSignals, n \in ExitHookSizes :
          /\ rip \in {entry, OtherRip}
          /\ should_restart_syscall_block(rax) => rip = entry
          /\ \E way \in ExitPaths(rip, IF n = None THEN 3 ELSE n) :
                probe = [pc |-> "exit_stop", entry |-> entry,
                         regs |-> [rip |-> rip, rax |-> rax],
                         signo |-> signo, hook_size |-> n, way |-> way,
                         steps |-> 0, sig |-> None,
                         stops |-> <<>>, delivered |-> <<>>]
          /\ tasks = [t \in Tasks |->
                        IF t = 1
                        THEN [new(t) EXCEPT !.state = Syscall,
                                            !.seccomp_hook_size = n]
                        ELSE new(t)]
          /\ rc = [h \in Tasks |->
                     IF h = 1
                     THEN [EmptyCell EXCEPT !.syscall_patch_lockset =
                                                try_read_lock(@, 1, entry)]
                     ELSE EmptyCell]
          /\ thr = [t \in Tasks |->
                      IF t = 1
                      THEN [NoThread EXCEPT !.sched = "stopped", !.aspace = 1,
                                            !.tgid = 1, !.rip = rip,
                                            !.inflight = entry]
                      ELSE NoThread]
    /\ space = [a \in Tasks |-> FreshSpace]
    /\ sup = Idle
    /\ systrace_state =
         [nr_syscalls |-> 0, nr_syscalls_ptraced |-> 0, nr_syscalls_patched |-> 0,
          nr_forked |-> 0, nr_cloned |-> 0, nr_exited |-> 0, nr_process_spawns |-> 0]
    /\ nevents = 0

\* handle_syscall_exit up to its loop: the registers are read; a call to be
\* restarted is returned as it is (should_restart_syscall asserts the signal
\* of the stop); otherwise the hook size, if set, is taken and the
\* single-stepping begins
handle_syscall_exit_entry(t) ==
    /\ probe.pc = "exit_stop"
    /\ tasks[t].state = Syscall
    /\ IF should_restart_syscall(probe.regs.rax)
       THEN /\ probe' = [probe EXCEPT !.pc =
                            IF probe.signo \in {SIGTRAP, SIGCHLD}
                            THEN "exit_returned" ELSE "exit_panic"]
            /\ UNCHANGED tasks
       ELSE IF tasks[t].seccomp_hook_size # None
       THEN /\ tasks' = [tasks EXCEPT ![t].seccomp_hook_size = None]
            /\ probe' = [probe EXCEPT !.pc = "exit_stepping"]
       ELSE /\ probe' = [probe EXCEPT !.pc = "exit_unlock"]
            /\ UNCHANGED tasks
    /\ UNCHANGED <<rc, thr, space, sup, systrace_state, nevents>>

\* handle_syscall_exit, one turn of the loop: ptrace::step with the signal of
\* the turn before (the tracee gets it), the wait for the stop (anything but
\* a stop of this thread panics), the registers read anew and the test
handle_syscall_exit_step(t) ==
    /\ probe.pc = "exit_stepping"
    /\ \E status \in {WaitStopped(SIGTRAP), WaitStopped(11), WaitExited(0)} :
          IF status[1] # "Stopped"
          THEN /\ probe' = [probe EXCEPT !.pc = "exit_panic", !.steps = @ + 1]
               /\ thr' = [thr EXCEPT ![t].sched = "dead"]
          ELSE LET new_rip == probe.way[probe.steps + 1]
                   syscall_end == probe.regs.rip + probe.hook_size
               IN  /\ thr' = [thr EXCEPT ![t].rip = new_rip]
                   /\ probe' =
                        [probe EXCEPT
                           !.steps = @ + 1,
                           !.delivered = IF probe.sig = None THEN @
                                         ELSE Append(@, probe.sig),
                           !.stops = Append(@, status[2]),
                           !.sig = IF status[2] = SIGTRAP THEN None ELSE status[2],
                           !.pc = IF inside_hook(new_rip, probe.regs.rip, syscall_end)
                                  THEN "exit_stepping" ELSE "exit_unlock"]
    /\ UNCHANGED <<tasks, rc, space, sup, systrace_state, nevents>>

\* handle_syscall_exit after the loop: the read lock of the rip of the stop
\* is given up and the task is Running
handle_syscall_exit_unlock(t) ==
    /\ probe.pc = "exit_unlock"
    /\ rc' = [rc EXCEPT ![tasks[t].syscall_patch_lockset].syscall_patch_lockset =
                            try_read_unlock(@, t, probe.regs.rip)]
    /\ tasks' = [tasks EXCEPT ![t].state = Running]
    /\ probe' = [probe EXCEPT !.pc = "exit_returned"]
    /\ UNCHANGED <<thr, space, sup, systrace_state, nevents>>

NextExit ==
    \/ handle_syscall_exit_entry(1)
    \/ handle_syscall_exit_step(1)
    \/ handle_syscall_exit_unlock(1)

SpecExit == InitExit /\ [][NextExit]_vars

\* C28: when handle_syscall_exit has returned for a syscall that is not
\* restarted, the thread no longer holds the read lock of the site it
\* entered the syscall from, seccomp_hook_size is unset and the task is
\* Running.
C28_ExitReleasesReadLock ==
    (probe.pc = "exit_returned" /\ ~should_restart_syscall(probe.regs.rax))
    => /\ 1 \notin Lockset(1)[probe.entry].readers
       /\ tasks[1].seccomp_hook_size = None
       /\ tasks[1].state = Running

\* C29: a syscall-exit stop with rax one of -ERESTARTSYS, -ERESTARTNOINTR,
\* -ERESTARTNOHAND and stop signal SIGTRAP or SIGCHLD is returned with the
\* task still in SyscallExit state, its read lock and its seccomp_hook_size
\* kept; with rax -ERESTARTBLOCK the exit is a normal one: the lock is
\* released and the task is Running.
C29_RestartKeepsExitState ==
    /\ (/\ probe.pc \in {"exit_stepping", "exit_unlock", "exit_returned", "exit_panic"}
        /\ ToI64(probe.regs.rax) \in
              {0 - ERESTARTSYS, 0 - ERESTARTNOINTR, 0 - ERESTARTNOHAND}
        /\ probe.signo \in {SIGTRAP, SIGCHLD})
       => /\ probe.pc = "exit_returned"
          /\ probe.steps = 0
          /\ tasks[1].state = Syscall
          /\ 1 \in Lockset(1)[probe.entry].readers
          /\ tasks[1].seccomp_hook_size = probe.hook_size
    /\ (/\ probe.pc = "exit_returned"
        /\ ToI64(probe.regs.rax) = 0 - ERESTARTBLOCK)
       => /\ tasks[1].state = Running
          /\ 1 \notin Lockset(1)[probe.entry].readers
          /\ tasks[1].seccomp_hook_size = None

\* C29 happens: an exit with a restart code has been returned, the task in
\* SyscallExit state with a hook size recorded
C29_Witness ==
    /\ probe.pc = "exit_returned"
    /\ ToI64(probe.regs.rax) = 0 - ERESTARTNOHAND
    /\ probe.signo = SIGCHLD
    /\ tasks[1].seccomp_hook_size # None
    /\ tasks[1].state = Syscall

\* the number of leading rips of a path that lie strictly between lo and hi
RECURSIVE LeadingInside(_, _, _)
LeadingInside(path, lo, hi) ==
    IF path = <<>> \/ ~(Head(path) > lo /\ Head(path) < hi) THEN 0
    ELSE 1 + LeadingInside(Tail(path), lo, hi)

NoSupervisor ==
    /\ tasks = [t \in Tasks |-> new(t)]
    /\ rc = [h \in Tasks |-> EmptyCell]
    /\ thr = [t \in Tasks |->
                IF t = 1
                THEN [NoThread EXCEPT !.sched = "stopped", !.aspace = 1, !.tgid = 1]
                ELSE NoThread]
    /\ space = [a \in Tasks |-> FreshSpace]
    /\ sup = Idle
    /\ systrace_state =
         [nr_syscalls |-> 0, nr_syscalls_ptraced |-> 0, nr_syscalls_patched |-> 0,
          nr_forked |-> 0, nr_cloned |-> 0, nr_exited |-> 0, nr_process_spawns |-> 0]
    /\ nevents = 0

\* ================================================================
\* poke_bytes and peek_bytes on their own, for at most 8 bytes: one word of
\* tracee memory, as its 8 bytes in memory order (little-endian), and the
\* bytes to write are the inputs.
RECURSIVE BitAnd(_, _)
BitAnd(a, b) ==
    IF a = 0 \/ b = 0 THEN 0
    ELSE (a % 2) * (b % 2) + 2 * BitAnd(a \div 2, b \div 2)

RECURSIVE BitOr(_, _)
BitOr(a, b) ==
    IF a = 0 THEN b
    ELSE IF b = 0 THEN a
    ELSE (IF a % 2 = 1 \/ b % 2 = 1 THEN 1 ELSE 0) + 2 * BitOr(a \div 2, b \div 2)

\* a mask table whose fifth entry is the fourth once more
poke_masks_repeated ==
    << <<0, 255, 255, 255, 255, 255, 255, 255>>,
       <<0, 0, 255, 255, 255, 255, 255, 255>>,
       <<0, 0, 0, 255, 255, 255, 255, 255>>,
       <<0, 0, 0, 0, 255, 255, 255, 255>>,
       <<0, 0, 0, 0, 255, 255, 255, 255>>,
       <<0, 0, 0, 0, 0, 0, 255, 255>>,
       <<0, 0, 0, 0, 0, 0, 0, 255>>,
       <<0, 0, 0, 0, 0, 0, 0, 0>> >>

\* poke_bytes: masks, entry size - 1 for a write of size bytes
poke_masks ==
    << <<0, 255, 255, 255, 255, 255, 255, 255>>,
       <<0, 0, 255, 255, 255, 255, 255, 255>>,
       <<0, 0, 0, 255, 255, 255, 255, 255>>,
       <<0, 0, 0, 0, 255, 255, 255, 255>>,
       <<0, 0, 0, 0, 0, 255, 255, 255>>,
       <<0, 0, 0, 0, 0, 0, 255, 255>>,
       <<0, 0, 0, 0, 0, 0, 0, 255>>,
       <<0, 0, 0, 0, 0, 0, 0, 0>> >>

\* poke_bytes for size <= 8: the word written, from the word read
RECURSIVE poke_or(_, _, _)
poke_or(u64_val, bytes, k) ==
    IF k >= Len(bytes) THEN u64_val
    ELSE poke_or([i \in 1..8 |->
                    BitOr(u64_val[i], IF i = k + 1 THEN bytes[k + 1] ELSE 0)],
                 bytes, k + 1)

poke_bytes(word, bytes) ==
    LET size == Len(bytes)
        u64_val == IF size < 8 THEN word ELSE [i \in 1..8 |-> 0]
        masked == [i \in 1..8 |-> BitAnd(u64_val[i], poke_masks[size][i])]
    IN  poke_or(masked, bytes, 0)

\* peek_bytes for size <= 8: the first size bytes of the word read
peek_bytes(word, size) == [i \in 1..size |-> word[i]]

PokeWords ==
    {[i \in 1..8 |-> 255], [i \in 1..8 |-> 0], <<17, 34, 51, 68, 85, 102, 119, 136>>}

PokeBytes == {0, 165, 255}

InitPoke ==
    /\ \E w \in PokeWords, size \in 1..8 :
          \E bytes \in [1..size -> PokeBytes] :
             probe = [pc |-> "poke", original |-> w, word |-> w,
                      bytes |-> bytes, read |-> <<>>]
    /\ NoSupervisor

\* poke_bytes: the read of the word can fail (the error is returned), the
\* write of it can fail (expect panics)
poke_bytes_at(t) ==
    /\ probe.pc = "poke"
    /\ \E io \in {"ok", "read_err", "write_err"} :
          /\ io = "read_err" => Len(probe.bytes) < 8
          /\ probe' = IF io = "ok"
                      THEN [probe EXCEPT !.pc = "poked",
                                         !.word = poke_bytes(@, probe.bytes)]
                      ELSE [probe EXCEPT !.pc = IF io = "read_err"
                                                THEN "poke_err" ELSE "poke_panic"]
    /\ UNCHANGED <<tasks, rc, thr, space, sup, systrace_state, nevents>>

\* peek_bytes of as many bytes at the same address
peek_bytes_at(t) ==
    /\ probe.pc = "poked"
    /\ \E io \in {"ok", "read_err"} :
          probe' = IF io = "ok"
                   THEN [probe EXCEPT !.pc = "peeked",
                                      !.read = peek_bytes(probe.word, Len(probe.bytes))]
                   ELSE [probe EXCEPT !.pc = "peek_err"]
    /\ UNCHANGED <<tasks, rc, thr, space, sup, systrace_state, nevents>>

NextPoke == poke_bytes_at(1) \/ peek_bytes_at(1)

SpecPoke == InitPoke /\ [][NextPoke]_vars

\* C23: for 1 <= k <= 8, a word w at the address and k bytes b, poke_bytes
\* writes the word whose lower k bytes are b, in little-endian order, and
\* whose upper 8 - k bytes are those of w; a peek_bytes of k bytes at the
\* address then returns b.
C23_PokeKeepsUpperBytes ==
    /\ probe.pc \in {"poked", "peeked", "peek_err"}
       => \A i \in 1..8 :
             probe.word[i] = IF i <= Len(probe.bytes) THEN probe.bytes[i]
                             ELSE probe.original[i]
    /\ probe.pc = "peeked" => probe.read = probe.bytes

\* C23 happens: five bytes, not all of them zero, have been written over a
\* word of all ones and read back
C23_Witness ==
    /\ probe.pc = "peeked"
    /\ Len(probe.bytes) = 5
    /\ probe.bytes[5] = 0 /\ probe.bytes[1] = 165
    /\ probe.original = [i \in 1..8 |-> 255]

\* ================================================================
\* find_syscall_hook on its own: the 16 bytes at rip and the number of the
\* two words of them that can be read are the inputs.
HookInputs ==
    LET H == DOMAIN SYSCALL_HOOKS
        Fill(bs, c) == [k \in 1..16 |-> IF k <= Len(bs) THEN bs[k] ELSE c]
        Bump(bs, at) == [k \in 1..Len(bs) |-> IF k = at THEN (bs[k] + 1) % 256 ELSE bs[k]]
    IN  {Fill(SYSCALL_HOOKS[h], c) : h \in H, c \in {0, 144, 204}}
        \cup {Fill(Bump(SYSCALL_HOOKS[h], Len(SYSCALL_HOOKS[h])), 204) : h \in H}
        \cup {Fill(Bump(SYSCALL_HOOKS[h], 1), 204) : h \in H}
        \cup {Fill(SubSeq(SYSCALL_HOOKS[h], 1, Len(SYSCALL_HOOKS[h]) - 1), 204) : h \in H}
        \cup {Fill(SYSCALL_HOOKS[h] \o SYSCALL_HOOKS[g], 204) : h \in H, g \in H}
        \cup {Fill(<<>>, 0), PatchedTail, Fill(<<72, 137, 195>>, 204)}

InitHook ==
    /\ \E bytes \in HookInputs, readable \in 0..2 :
          probe = [pc |-> "find_hook", bytes |-> bytes, readable |-> readable,
                   hook |-> None]
    /\ NoSupervisor

\* find_syscall_hook: None when one of the two words cannot be read
find_syscall_hook_peeked(t) ==
    /\ probe.pc = "find_hook"
    /\ probe' = [probe EXCEPT !.pc = "hook_found",
                              !.hook = IF probe.readable < 2 THEN None
                                       ELSE find_syscall_hook_in(probe.bytes)]
    /\ UNCHANGED <<tasks, rc, thr, space, sup, systrace_state, nevents>>

NextHook == find_syscall_hook_peeked(1)

SpecHook == InitHook /\ [][NextHook]_vars

\* the catalog scanned from entry k on, entry by entry
RECURSIVE reference_match(_, _)
reference_match(bytes, k) ==
    IF k > Len(SYSCALL_HOOKS) THEN None
    ELSE IF SubSeq(bytes, 1, Len(SYSCALL_HOOKS[k])) = SYSCALL_HOOKS[k] THEN k
    ELSE reference_match(bytes, k + 1)

\* C24: find_hook returns the catalog entry of lowest index whose bytes are a
\* prefix of the 16 bytes read at rip, and no hook exactly when no entry is
\* such a prefix or the bytes cannot be read; its result is that of a scan
\* of the catalog entry by entry.
C24_FirstPrefixMatch ==
    probe.pc = "hook_found"
    => LET prefixes == {k \in DOMAIN SYSCALL_HOOKS :
                          \A i \in 1..Len(SYSCALL_HOOKS[k]) :
                             SYSCALL_HOOKS[k][i] = probe.bytes[i]}
       IN  /\ probe.hook = None <=> (prefixes = {} \/ probe.readable < 2)
           /\ probe.hook # None
              => probe.hook \in prefixes /\ \A j \in prefixes : probe.hook <= j
           /\ probe.readable = 2 => probe.hook = reference_match(probe.bytes, 1)

\* C24 happens: a hook other than the first of the catalog has been found
\* in bytes that go on after it
C24_Witness ==
    /\ probe.pc = "hook_found"
    /\ probe.hook = 11
    /\ probe.bytes[5] = 72

\* ================================================================
\* decode_proc_maps and the Debug form of ProcMapsEntry on their own: the
\* lines of /proc/<pid>/maps, as sequences of characters, are the input.
\* A u64 read from hexadecimal is held as its 16 hexadecimal digits, the
\* inode as its decimal digits without leading zeros.
PROT_READ == 1
PROT_WRITE == 2
PROT_EXEC == 4
MAP_SHARED == 1
MAP_PRIVATE == 2

hex_digit ==
    [c \in {"0", "1", "2", "3", "4", "5", "6", "7", "8", "9", "a", "b", "c", "d",
            "e", "f", "A", "B", "C", "D", "E", "F"} |->
       CASE c = "0" -> 0 [] c = "1" -> 1 [] c = "2" -> 2 [] c = "3" -> 3
         [] c = "4" -> 4 [] c = "5" -> 5 [] c = "6" -> 6 [] c = "7" -> 7
         [] c = "8" -> 8 [] c = "9" -> 9 [] c \in {"a", "A"} -> 10
         [] c \in {"b", "B"} -> 11 [] c \in {"c", "C"} -> 12
         [] c \in {"d", "D"} -> 13 [] c \in {"e", "E"} -> 14
         [] c \in {"f", "F"} -> 15]

\* the digits of s without its leading zeros (one digit at least)
Significant(s) ==
    LET nz == {k \in 1..Len(s) : s[k] # "0"}
        first == IF nz = {} THEN Len(s) ELSE CHOOSE k \in nz : \A j \in nz : k <= j
    IN  SubSeq(s, first, Len(s))

\* hex_value: u64::from_str_radix(s, 16).unwrap_or(0)
hex_value(s) ==
    LET sig == Significant(s)
    IN  IF Len(sig) > 16 THEN [k \in 1..16 |-> 0]
        ELSE [k \in 1..16 |->
                IF k <= 16 - Len(sig) THEN 0 ELSE hex_digit[sig[k - (16 - Len(sig))]]]

\* dec_value: s.parse::<u64>().unwrap_or(0), s a run of hexadecimal digits
dec_value(s) ==
    LET sig == Significant(s)
        max ==
          <<"1", "8", "4", "4", "6", "7", "4", "4", "0", "7", "3", "7", "0", "9", "5", "5",
            "1", "6", "1", "5">>
        less == \E i \in 1..20 : /\ hex_digit[sig[i]] < hex_digit[max[i]]
                                 /\ \A j \in 1..(i - 1) : sig[j] = max[j]
    IN  IF \E k \in 1..Len(s) : hex_digit[s[k]] > 9 THEN <<"0">>
        ELSE IF Len(sig) > 20 THEN <<"0">>
        ELSE IF Len(sig) = 20 /\ sig # max /\ ~less THEN <<"0">>
        ELSE sig

\* a + b and a - b on 16 hexadecimal digits, wrapping
wrapping_add(a, b) ==
    LET carry[i \in 0..16] ==
            IF i = 0 THEN 0 ELSE (a[17 - i] + b[17 - i] + carry[i - 1]) \div 16
    IN  [k \in 1..16 |-> (a[k] + b[k] + carry[16 - k]) % 16]

wrapping_sub(a, b) ==
    LET borrow[i \in 0..16] ==
            IF i = 0 THEN 0
            ELSE IF a[17 - i] - b[17 - i] - borrow[i - 1] < 0 THEN 1 ELSE 0
    IN  [k \in 1..16 |-> (a[k] - b[k] - borrow[16 - k] + 16) % 16]

\* parser: the entry of a line, or no entry.  from '-' to, protection and
\* flag characters, offset, device (at most two digits each side of ':'),
\* inode, path; spaces() before every field but the first two.
parser(line) ==
    LET n == Len(line)
        Hex == DOMAIN hex_digit
        Run(i, S) == CHOOSE j \in i..(n + 1) :
                        /\ \A k \in i..(j - 1) : line[k] \in S
                        /\ j = n + 1 \/ line[j] \notin S
        spaces(i) == Run(i, {" ", "\t"})
        Upto2(i) == IF Run(i, Hex) > i + 2 THEN i + 2 ELSE Run(i, Hex)
        a1 == Run(1, Hex)
        b1 == Run(a1 + 1, Hex)
        p0 == spaces(b1)
        o0 == spaces(p0 + 4)
        o1 == Run(o0, Hex)
        d0 == spaces(o1)
        d1 == Upto2(d0)
        d2 == Upto2(d1 + 1)
        i0 == spaces(d2)
        i1 == Run(i0, Hex)
        f0 == spaces(i1)
        f1 == Run(f0, {line[k] : k \in 1..n} \ {"\r", "\n"})
        ok == /\ a1 > 1 /\ a1 <= n /\ line[a1] = "-"
              /\ b1 > a1 + 1
              /\ p0 + 3 <= n
              /\ line[p0] \in {"-", "r"} /\ line[p0 + 1] \in {"-", "w"}
              /\ line[p0 + 2] \in {"-", "x"} /\ line[p0 + 3] \in {"-", "s", "p"}
              /\ o1 > o0
              /\ d1 <= n /\ line[d1] = ":"
              /\ i1 > i0
        from == hex_value(SubSeq(line, 1, a1 - 1))
        to == hex_value(SubSeq(line, a1 + 1, b1 - 1))
        major == hex_value(SubSeq(line, d0, d1 - 1))
        minor == hex_value(SubSeq(line, d1 + 1, d2 - 1))
    IN  IF ~ok THEN [ok |-> FALSE]
        ELSE [ok |-> TRUE,
              base |-> from,
              size |-> wrapping_sub(to, from),
              prot |-> (IF line[p0] = "r" THEN PROT_READ ELSE 0)
                       + (IF line[p0 + 1] = "w" THEN PROT_WRITE ELSE 0)
                       + (IF line[p0 + 2] = "x" THEN PROT_EXEC ELSE 0),
              flags |-> IF line[p0 + 3] = "p" THEN MAP_PRIVATE
                        ELSE IF line[p0 + 3] = "s" THEN MAP_SHARED ELSE 0,
              offset |-> hex_value(SubSeq(line, o0, o1 - 1)),
              dev |-> (major[15] * 16 + major[16]) * 256 + minor[15] * 16 + minor[16],
              inode |-> dec_value(SubSeq(line, i0, i1 - 1)),
              file |-> IF f1 > f0 THEN [some |-> TRUE, path |-> SubSeq(line, f0, f1 - 1)]
                       ELSE [some |-> FALSE, path |-> <<>>]]

format_prot_flags(prot_, flags_) ==
    <<IF BitAnd(prot_, PROT_READ) # 0 THEN "r" ELSE "-",
      IF BitAnd(prot_, PROT_WRITE) # 0 THEN "w" ELSE "-",
      IF BitAnd(prot_, PROT_EXEC) # 0 THEN "x" ELSE "-",
      IF BitAnd(flags_, MAP_SHARED) # 0 THEN "s"
      ELSE IF BitAnd(flags_, MAP_PRIVATE) # 0 THEN "p" ELSE "-">>

\* Debug for ProcMapsEntry, the fields up to the inode: the string s
fmt_fields(e) ==
    LET digits == <<"0", "1", "2", "3", "4", "5", "6", "7", "8", "9", "a", "b", "c", "d", "e",
                    "f">>
        x(v, width) ==
            LET nz == {k \in 1..16 : v[k] # 0}
                first == IF nz = {} THEN 16 ELSE CHOOSE k \in nz : \A j \in nz : k <= j
                from == IF 17 - width < first THEN 17 - width ELSE first
            IN  [k \in 1..(17 - from) |-> digits[v[from + k - 1] + 1]]
        x2(b) == <<digits[((b \div 16) % 16) + 1], digits[(b % 16) + 1]>>
    IN  x(e.base, 1) \o <<"-">> \o x(wrapping_add(e.base, e.size), 1) \o <<" ">>
        \o format_prot_flags(e.prot, e.flags) \o <<" ">> \o x(e.offset, 8) \o <<" ">>
        \o x2(e.dev \div 256) \o <<":">> \o x2(e.dev % 256) \o <<" ">> \o e.inode

\* Debug for ProcMapsEntry: s, 73 - s.len() blanks, the path.  72 - s.len()
\* is taken in usize: for a longer s there is no line (the subtraction
\* panics, or wraps and the blanks never end).
fmt(e) ==
    LET s == fmt_fields(e)
    IN  IF Len(s) > 72 THEN [ok |-> FALSE, line |-> <<>>]
        ELSE [ok |-> TRUE,
              line |-> s \o [k \in 1..(73 - Len(s)) |-> " "] \o e.file.path]

\* decode_proc_maps, from the lines read: every line parsed, and the
\* results collected into one Result
decode_proc_maps_lines(lines) ==
    LET ents == [k \in 1..Len(lines) |-> parser(lines[k])]
    IN  IF \E k \in 1..Len(ents) : ~ents[k].ok
        THEN [ok |-> FALSE, ents |-> <<>>]
        ELSE [ok |-> TRUE, ents |-> ents]

MapsLines ==
    LET addrs ==
          {<<"4", "0", "0", "0", "0", "0", "-", "4", "0", "1", "0", "0", "0">>,
           <<"7", "f", "f", "f", "f", "7", "d", "d", "3", "0", "0", "0", "-", "7", "f", "f",
             "f", "f", "7", "d", "d", "5", "0", "0", "0">>,
           <<"f", "f", "f", "f", "f", "f", "f", "f", "f", "f", "6", "0", "0", "0", "0", "0",
             "-", "f", "f", "f", "f", "f", "f", "f", "f", "f", "f", "6", "0", "1", "0", "0",
             "0">>,
           <<"7", "F", "F", "F", "0", "0", "0", "0", "-", "7", "f", "f", "f", "1", "0", "0",
             "0">>}
        prots ==
          {<<" ", "r", "-", "x", "p", " ">>,
           <<" ", "r", "w", "-", "s", " ">>,
           <<" ", "-", "-", "-", "p", " ">>,
           <<" ", "r", "-", "-", "-", " ">>}
        offsets ==
          {<<"0", "0", "0", "0", "0", "0", "0", "0">>,
           <<"0", "0", "0", "1", "f", "0", "0", "0">>,
           <<"f", "f", "f", "f", "f", "f", "f", "f", "f", "f", "f", "f", "f", "f", "f", "f">>,
           <<"1", "2", "3", "4", "5", "6", "7", "8", "9", "0", "1", "2", "3", "4", "5", "6",
             "7">>}
        devs ==
          {<<" ", "0", "0", ":", "0", "0", " ">>,
           <<" ", "f", "d", ":", "0", "1", " ">>}
        inodes ==
          {<<"0">>,
           <<"1", "3", "1", "5">>,
           <<"1", "8", "4", "4", "6", "7", "4", "4", "0", "7", "3", "7", "0", "9", "5", "5",
             "1", "6", "1", "5">>,
           <<"1", "8", "4", "4", "6", "7", "4", "4", "0", "7", "3", "7", "0", "9", "5", "5",
             "1", "6", "1", "6">>,
           <<"1", "a">>}
        paths ==
          {<<>>,
           <<" ", " ">>,
           <<" ", " ", " ", " ", " ", " ", " ", "/", "l", "i", "b", "/", "l", "d", ".", "s",
             "o">>,
           <<" ", "/", "t", "m", "p", "/", "a", " ", "b", " ", " ">>,
           <<" ", " ", " ", " ", " ", " ", " ", " ", " ", " ", " ", " ", " ", " ", " ", " ",
             " ", " ", " ", "[", "h", "e", "a", "p", "]">>}
    IN  {a \o p \o o \o d \o i \o f :
           a \in addrs, p \in prots, o \in offsets, d \in devs, i \in inodes,
           f \in paths}

\* lines that are no entries: a device number of three digits, no inode, a
\* protection field of three characters, an empty line
MapsBadLines ==
    {<<"4", "0", "0", "0", "0", "0", "-", "4", "0", "1", "0", "0", "0", " ", "r", "-", "x",
       "p", " ", "0", "0", "0", "0", "0", "0", "0", "0", " ", "1", "0", "3", ":", "0", "2",
       " ", "1", "3", "1", "5", " ", " ", " ", "/", "b", "i", "n", "/", "t", "r", "u", "e">>,
     <<"4", "0", "0", "0", "0", "0", "-", "4", "0", "1", "0", "0", "0", " ", "r", "-", "x",
       "p", " ", "0", "0", "0", "0", "0", "0", "0", "0", " ", "f", "d", ":", "0", "1">>,
     <<"4", "0", "0", "0", "0", "0", "-", "4", "0", "1", "0", "0", "0", " ", "r", "-", "x",
       " ", "0", "0", "0", "0", "0", "0", "0", "0", " ", "f", "d", ":", "0", "1", " ", "1",
       "3", "1", "5">>,
     <<>>}

InitMaps ==
    /\ LET g ==
             <<"4", "0", "0", "0", "0", "0", "-", "4", "0", "1", "0", "0", "0", " ", "r", "-",
               "x", "p", " ", "0", "0", "0", "0", "0", "0", "0", "0", " ", "f", "d", ":", "0",
               "1", " ", "1", "3", "1", "5", " ", " ", " ", "/", "b", "i", "n", "/", "t", "r",
               "u", "e">>
           h ==
             <<"7", "f", "f", "f", "f", "7", "d", "d", "3", "0", "0", "0", "-", "7", "f", "f",
               "f", "f", "7", "d", "d", "5", "0", "0", "0", " ", "r", "w", "-", "p", " ", "0",
               "0", "0", "1", "f", "0", "0", "0", " ", "0", "0", ":", "0", "0", " ", "0">>
       IN  \E lines \in {<<l>> : l \in MapsLines \cup MapsBadLines}
                         \cup {<<g, b>> : b \in MapsBadLines}
                         \cup {<<b, g>> : b \in MapsBadLines}
                         \cup {<<g, b, h>> : b \in MapsBadLines}
                         \cup {<<g, h>>, <<h, g, h>>} :
              probe = [pc |-> "maps_read", lines |-> lines,
                       decoded |-> [ok |-> FALSE, ents |-> <<>>],
                       shown |-> <<>>,
                       again |-> [ok |-> FALSE, ents |-> <<>>]]
    /\ NoSupervisor

\* update_memory_map: decode_proc_maps(pid).unwrap_or_else(|_| Vec::new())
update_memory_map_lines(t) ==
    /\ probe.pc = "maps_read"
    /\ LET decoded == decode_proc_maps_lines(probe.lines)
       IN  /\ probe' = [probe EXCEPT !.pc = "maps_decoded", !.decoded = decoded]
           /\ rc' = [rc EXCEPT ![tasks[t].memory_map].memory_map =
                                   IF decoded.ok THEN decoded.ents ELSE <<>>]
    /\ UNCHANGED <<tasks, thr, space, sup, systrace_state, nevents>>

\* pretty_show_maps: decode_proc_maps(pid).unwrap(), then every entry in
\* its Debug form
pretty_show_maps(t) ==
    /\ probe.pc = "maps_decoded"
    /\ LET shown == [k \in 1..Len(probe.decoded.ents) |-> fmt(probe.decoded.ents[k])]
       IN  IF ~probe.decoded.ok
           THEN probe' = [probe EXCEPT !.pc = "maps_panic"]
           ELSE IF \E k \in 1..Len(shown) : ~shown[k].ok
           THEN \E out \in {"fmt_panic", "fmt_exhausted"} :
                   probe' = [probe EXCEPT !.pc = out]
           ELSE probe' = [probe EXCEPT !.pc = "maps_shown",
                                       !.shown = [k \in 1..Len(shown) |-> shown[k].line]]
    /\ UNCHANGED <<tasks, rc, thr, space, sup, systrace_state, nevents>>

\* the lines shown, decoded again
decode_proc_maps_shown(t) ==
    /\ probe.pc = "maps_shown"
    /\ probe' = [probe EXCEPT !.pc = "maps_reparsed",
                              !.again = decode_proc_maps_lines(probe.shown)]
    /\ UNCHANGED <<tasks, rc, thr, space, sup, systrace_state, nevents>>

NextMaps ==
    \/ update_memory_map_lines(1)
    \/ pretty_show_maps(1)
    \/ decode_proc_maps_shown(1)

SpecMaps == InitMaps /\ [][NextMaps]_vars

\* the entries of the lines that parse, in the order of the lines
WellFormedEntries(lines) ==
    LET Parses(l) == parser(l).ok
        good == SelectSeq(lines, Parses)
    IN  [k \in 1..Len(good) |-> parser(good[k])]

\* C21: a VM map with malformed lines is decoded all the same: the lines
\* that do not parse are dropped, and every well-formed line is returned as
\* an entry, in the order of the input.
C21_MalformedLinesDropped ==
    probe.pc = "maps_decoded"
    => /\ probe.decoded.ok
       /\ probe.decoded.ents = WellFormedEntries(probe.lines)
       /\ rc[tasks[1].memory_map].memory_map = WellFormedEntries(probe.lines)

\* C22: every entry the parser can produce, formatted as
\* `base-end prot offset major:minor inode path` and parsed again, gives an
\* entry equal in every field, entries without a path and entries of lines
\* with trailing whitespace included.
C22_FormatParseRoundTrip ==
    /\ probe.pc \notin {"fmt_panic", "fmt_exhausted"}
    /\ probe.pc = "maps_reparsed" => probe.again = probe.decoded

\* ================================================================
\* the step is one in which a seccomp handler of t that found the syscall
\* instruction in place comes to its end
SeccompHandled(t) ==
    /\ sup.tid = t /\ sup.pc \in {"locked", "writing"}
    /\ sup'.pc = "idle"

\* C34: a seccomp event handled with the syscall instruction in place and no
\* patch adds one to nr_syscalls and one to nr_syscalls_ptraced and leaves
\* nr_syscalls_patched; a patch adds one to nr_syscalls_patched and leaves
\* the two others; nr_syscalls_ptraced never exceeds nr_syscalls.
C34_SeccompCounters ==
    [][/\ \A t \in Tasks :
            SeccompHandled(t)
            => IF space'[thr[t].aspace].rewrites[thr[t].rip]
                    > space[thr[t].aspace].rewrites[thr[t].rip]
               THEN /\ systrace_state'.nr_syscalls_patched
                          = systrace_state.nr_syscalls_patched + 1
                    /\ systrace_state'.nr_syscalls = systrace_state.nr_syscalls
                    /\ systrace_state'.nr_syscalls_ptraced
                          = systrace_state.nr_syscalls_ptraced
               ELSE /\ systrace_state'.nr_syscalls_patched
                          = systrace_state.nr_syscalls_patched
                    /\ systrace_state'.nr_syscalls = systrace_state.nr_syscalls + 1
                    /\ systrace_state'.nr_syscalls_ptraced
                          = systrace_state.nr_syscalls_ptraced + 1
       /\ systrace_state'.nr_syscalls_ptraced <= systrace_state'.nr_syscalls]_vars

\* C34 happens: a site has been patched and another call has been left to
\* the kernel
C34_Witness ==
    /\ sup.pc = "idle"
    /\ systrace_state.nr_syscalls_patched = 1
    /\ systrace_state.nr_syscalls_ptraced = 2
    /\ systrace_state.nr_forked + systrace_state.nr_cloned = 0

\* C35: the loop in which the seccomp handler takes the read lock ends, with
\* the lock taken: the handler is never left trying, with nobody but itself
\* to change the lockset.
C35_ReadLockLoopEnds == sup.pc # "spin"

\* C36: between two handlers of the supervisor no site of any lockset is
\* held for write: the patch routine has given the write lock up whenever it
\* has returned.
C36_NoWriteLockAfterPatchRoutine ==
    sup.pc = "idle"
    => \A t \in Tasks, r \in Rips : Live(t) => t \notin Lockset(t)[r].writers

\* C37: once the exit event of a thread has been handled, no lockset of a
\* live thread holds a lock under the id of the dead one.
C37_DeadThreadHoldsNoLock ==
    \A t \in Tasks, u \in Tasks, r \in Rips :
        (thr[t].sched = "dead" /\ Live(u))
        => /\ t \notin Lockset(u)[r].readers
           /\ t \notin Lockset(u)[r].writers

\* C38: the patch routine is never entered for a site that is in the
\* patched set of the task, and no patched set holds an address twice.
C38_PatchRoutineNotReentered ==
    \A t \in Tasks :
        /\ (/\ sup.pc = "locked" /\ sup.tid = t
            /\ tasks[t].ldpreload_address # None /\ sup.hook # None
            /\ ~tasks[t].in_vfork)
           => ~is_patched_syscall(t, thr[t].rip)
        /\ Live(t)
           => \A i, j \in 1..Len(Patched(t)) :
                 Patched(t)[i] = Patched(t)[j] => i = j

\* the step is one in which the seccomp handler of t returns the task
SeccompReturned(t) ==
    /\ tasks[t].state = Event(PTRACE_EVENT_SECCOMP)
    /\ thr[t].sched = "stopped" /\ thr'[t].sched = "running"

SYSTRACE_PRIVATE_PAGE_OFFSET == 114688

\* a breakpoint word that replaces all 8 bytes of the word read
bp_syscall_bp_word8(saved) ==
    [i \in 1..8 |-> BitOr(BitAnd(saved[i], 0),
                          <<204, 15, 5, 204, 0, 0, 0, 0>>[i])]

\* do_ptrace_exec: (saved & !0xffffffff) | 0xcc050fcc, bytes in memory order
bp_syscall_bp_word(saved) ==
    [i \in 1..8 |-> BitOr(BitAnd(saved[i], <<0, 0, 0, 0, 255, 255, 255, 255>>[i]),
                          <<204, 15, 5, 204, 0, 0, 0, 0>>[i])]

\* the tracee after ptrace::cont, up to its next stop: int3 stops it with
\* SIGTRAP behind the instruction; syscall stops it at the seccomp event when
\* a filter is installed and otherwise returns result in rax and goes on, as
\* it does when continued from the seccomp event; any other bytes give a
\* fault
RECURSIVE tracee_cont(_, _)
tracee_cont(p, result) ==
    LET off == p.regs.rip - p.rip0
        at(i) == IF off + i \in 1..8 THEN p.word[off + i] ELSE 0
    IN  IF p.entered
        THEN tracee_cont([p EXCEPT !.entered = FALSE, !.regs.rax = result,
                                   !.seccomp_seen = TRUE], result)
        ELSE IF at(1) = 204
        THEN [p EXCEPT !.status = WaitStopped(SIGTRAP), !.regs.rip = @ + 1]
        ELSE IF at(1) = 15 /\ at(2) = 5
        THEN IF p.seccomp
             THEN [p EXCEPT !.status = WaitPtraceEvent(PTRACE_EVENT_SECCOMP),
                            !.regs.rip = @ + 2, !.entered = TRUE]
             ELSE tracee_cont([p EXCEPT !.regs.rip = @ + 2, !.regs.rax = result],
                              result)
        ELSE [p EXCEPT !.status = WaitStopped(11)]

InitExec ==
    /\ \E w \in PokeWords \cup {<<204, 15, 5, 204, 72, 137, 231, 232>>},
          rip \in {SiteRip(1), OtherRip}, seccomp \in BOOLEAN :
          probe = [pc |-> "exec_stop", rip0 |-> rip, word0 |-> w, word |-> w,
                   regs |-> [rip |-> rip, rax |-> 0, orig_rax |-> 59, rdi |-> 3],
                   saved |-> w,
                   saved_regs |-> [rip |-> rip, rax |-> 0, orig_rax |-> 59, rdi |-> 3],
                   status |-> WaitPtraceEvent(PTRACE_EVENT_EXEC),
                   seccomp |-> seccomp, entered |-> FALSE, seccomp_seen |-> FALSE]
    /\ NoSupervisor

\* do_ptrace_exec up to the call of tracee_preinit: the word at rip is read
\* and saved, its lower 4 bytes are overwritten, the tracee is continued and
\* must stop with SIGTRAP
do_ptrace_exec_breakpoint(t) ==
    /\ probe.pc = "exec_stop"
    /\ \E io \in {"ok", "read_err", "write_err", "signal"} :
          probe' =
            IF io \in {"read_err", "write_err"}
            THEN [probe EXCEPT !.pc = "exec_err"]
            ELSE LET written == [probe EXCEPT !.saved = probe.word,
                                              !.word = bp_syscall_bp_word(probe.word)]
                     stopped == IF io = "signal"
                                THEN [written EXCEPT !.status = WaitStopped(SIGCHLD)]
                                ELSE tracee_cont(written, 0)
                 IN  [stopped EXCEPT !.pc = IF stopped.status = WaitStopped(SIGTRAP)
                                            THEN "preinit" ELSE "exec_panic"]
    /\ UNCHANGED <<tasks, rc, thr, space, sup, systrace_state, nevents>>

\* tracee_preinit up to its loop: the registers are saved, the mmap of the
\* private page is set up in them and the tracee is continued
tracee_preinit_mmap(t) ==
    /\ probe.pc = "preinit"
    /\ \E result \in {SYSTRACE_PRIVATE_PAGE_OFFSET, SYSTRACE_PRIVATE_PAGE_OFFSET + PAGE,
                      ToU64(0 - 12)} :
          probe' =
            LET regs == [probe.regs EXCEPT !.orig_rax = 9, !.rax = 9,
                                           !.rdi = SYSTRACE_PRIVATE_PAGE_OFFSET]
            IN  [tracee_cont([probe EXCEPT !.saved_regs = probe.regs, !.regs = regs],
                             result)
                   EXCEPT !.pc = "preinit_wait"]
    /\ UNCHANGED <<tasks, rc, thr, space, sup, systrace_state, nevents>>

\* one turn of the loop of tracee_preinit: a SIGTRAP stop ends it, a seccomp
\* event is continued, any other status panics
tracee_preinit_wait(t) ==
    /\ probe.pc = "preinit_wait"
    /\ \E result \in {SYSTRACE_PRIVATE_PAGE_OFFSET, SYSTRACE_PRIVATE_PAGE_OFFSET + PAGE,
                      ToU64(0 - 12)} :
          probe' =
            IF probe.status = WaitStopped(SIGTRAP)
            THEN [probe EXCEPT !.pc = "preinit_stopped"]
            ELSE IF probe.status = WaitPtraceEvent(PTRACE_EVENT_SECCOMP)
            THEN tracee_cont(probe, result)
            ELSE [probe EXCEPT !.pc = "exec_panic"]
    /\ UNCHANGED <<tasks, rc, thr, space, sup, systrace_state, nevents>>

\* tracee_preinit after its loop: the result of the mmap is tested and the
\* saved registers are written back with rip one byte lower
tracee_preinit_restore(t) ==
    /\ probe.pc = "preinit_stopped"
    /\ probe' =
         IF probe.regs.rax > ToU64(0 - 4096)
         THEN [probe EXCEPT !.pc = "exec_err"]
         ELSE IF probe.regs.rax # SYSTRACE_PRIVATE_PAGE_OFFSET
         THEN [probe EXCEPT !.pc = "exec_panic"]
         ELSE [probe EXCEPT !.pc = "preinit_done",
                            !.regs = [probe.saved_regs EXCEPT !.rip = @ - 1]]
    /\ UNCHANGED <<tasks, rc, thr, space, sup, systrace_state, nevents>>

\* do_ptrace_exec after tracee_preinit: the saved word is written back; the
\* injected mmap of the shared-state page restores the registers it found
\* and its result is unwrapped
do_ptrace_exec_restore(t) ==
    /\ probe.pc = "preinit_done"
    /\ \E io \in {"ok", "write_err", "mmap_err"} :
          probe' =
            IF io = "write_err" THEN [probe EXCEPT !.pc = "exec_err"]
            ELSE [probe EXCEPT !.word = probe.saved,
                               !.pc = IF io = "ok" THEN "exec_done" ELSE "exec_panic"]
    /\ UNCHANGED <<tasks, rc, thr, space, sup, systrace_state, nevents>>

NextExec ==
    \/ do_ptrace_exec_breakpoint(1)
    \/ tracee_preinit_mmap(1)
    \/ tracee_preinit_wait(1)
    \/ tracee_preinit_restore(1)
    \/ do_ptrace_exec_restore(1)

SpecExec == InitExec /\ [][NextExec]_vars

\* C33: when do_ptrace_exec has returned Ok, the tracee's rip is the rip of
\* the exec stop and the word at it is the word that was there before the
\* overwrite; between the overwrite and the return the upper 4 bytes of the
\* word are the original ones.
C33_ExecRestoresRipAndBytes ==
    /\ probe.pc = "exec_done"
       => /\ probe.regs.rip = probe.rip0
          /\ probe.word = probe.word0
    /\ \A i \in 5..8 : probe.word[i] = probe.word0[i]

\* C33 happens: exec handling has returned Ok for a word of all ones, and the
\* injected mmap went through a seccomp event
C33_Witness ==
    /\ probe.pc = "exec_done"
    /\ probe.seccomp_seen
    /\ probe.word0 = [i \in 1..8 |-> 255]
    /\ probe.saved_regs.rip = probe.rip0 + 1

\* ================================================================
\* the ring buffer of the tool-side logger on its own: RING_BUFFER, the bytes
\* handed to the flush callback so far, and the strings written so far.

\* RING_BUFF_SIZE, scaled down
RING_BUFF_SIZE == 6

MaxLogLen == 3
MaxLogWrites == 3

\* update_buffer: n bytes read at buffer are copied to end, in two pieces
\* when they reach the end of the array
update_buffer(rb, buffer, n, update_begin) ==
    IF n = 0 THEN rb
    ELSE IF rb.end + n < rb.size
    THEN [rb EXCEPT !.is_empty = FALSE,
                    !.bytes = [k \in 1..rb.size |->
                                 IF k - 1 \in rb.end..(rb.end + n - 1)
                                 THEN buffer[k - rb.end] ELSE @[k]],
                    !.begin = IF update_begin THEN rb.end ELSE @,
                    !.end = @ + n]
    ELSE LET i == rb.size - rb.end
             j == n - i
         IN  [rb EXCEPT !.is_empty = FALSE,
                        !.bytes = [k \in 1..rb.size |->
                                     IF k - 1 >= rb.end THEN buffer[k - rb.end]
                                     ELSE IF k - 1 < j THEN buffer[i + k]
                                     ELSE @[k]],
                        !.begin = IF update_begin THEN rb.end ELSE @,
                        !.end = j]

\* flush_buffer: the bytes handed to the callback, and the buffer afterwards;
\* a byte outside the array is oob
flush_buffer(rb, oob) ==
    LET byte(k) == IF k \in 0..(rb.size - 1) THEN rb.bytes[k + 1] ELSE oob
        i == rb.size - rb.end
        j == rb.size - (rb.begin - rb.end) - i
    IN  IF rb.is_empty THEN [rb |-> rb, out |-> <<>>]
        ELSE [rb |-> [rb EXCEPT !.end = rb.begin, !.is_empty = TRUE],
              out |-> IF rb.end > rb.begin
                      THEN [k \in 1..(rb.end - rb.begin) |-> byte(rb.begin + k - 1)]
                      ELSE [k \in 1..i |-> byte(rb.begin + k - 1)]
                           \o [k \in 1..j |-> byte(k - 1)]]

InitLog ==
    /\ probe = [pc |-> "log",
                rb |-> [bytes |-> [k \in 1..RING_BUFF_SIZE |-> 0],
                        size |-> RING_BUFF_SIZE, begin |-> 0, end |-> 0,
                        is_empty |-> TRUE],
                flushed |-> <<>>, written |-> <<>>, pending |-> 0,
                over |-> FALSE, outside |-> FALSE, nwrites |-> 0]
    /\ NoSupervisor

\* ring_buffer_write of the string s: memrchr finds the last newline; what
\* is read at s.as_ptr() + off for n bytes is s where it is inside s and
\* the byte oob behind it
ring_buffer_write(s) ==
    /\ probe.pc = "log"
    /\ probe.nwrites < MaxLogWrites
    /\ \E oob \in {0, 98} :
          LET newlines == {k \in 0..(Len(s) - 1) : s[k + 1] = 10}
              read(off, n) == [k \in 1..n |->
                                 IF off + k <= Len(s) THEN s[off + k] ELSE oob]
              i == 1 + CHOOSE k \in newlines : \A m \in newlines : m <= k
              j == Len(s) - i
              filled == update_buffer(probe.rb, read(0, i), i, FALSE)
              done == flush_buffer(filled, oob)
          IN  probe' =
                IF newlines = {}
                THEN [probe EXCEPT
                        !.rb = update_buffer(@, read(0, Len(s)), Len(s), FALSE),
                        !.written = @ \o s,
                        !.pending = @ + Len(s),
                        !.over = @ \/ probe.pending + Len(s) > RING_BUFF_SIZE,
                        !.nwrites = @ + 1]
                ELSE [probe EXCEPT
                        !.rb = update_buffer(done.rb, read(1 + i, j), j, FALSE),
                        !.flushed = @ \o done.out,
                        !.written = @ \o s,
                        !.pending = j,
                        !.over = @ \/ probe.pending + i > RING_BUFF_SIZE,
                        !.outside = @ \/ (j > 0 /\ 1 + i + j > Len(s)),
                        !.nwrites = @ + 1]
    /\ UNCHANGED <<tasks, rc, thr, space, sup, systrace_state, nevents>>

NextLog ==
    \E n \in 0..MaxLogLen : \E s \in [1..n -> {10, 97, 98}] : ring_buffer_write(s)

SpecLog == InitLog /\ [][NextLog]_vars

\* the bytes between begin and end of the ring
Buffered(rb) ==
    IF rb.is_empty THEN <<>>
    ELSE IF rb.end > rb.begin
    THEN [k \in 1..(rb.end - rb.begin) |-> rb.bytes[rb.begin + k]]
    ELSE [k \in 1..(rb.size - rb.begin) |-> rb.bytes[rb.begin + k]]
         \o [k \in 1..rb.end |-> rb.bytes[k]]

\* C40: as long as the unflushed content never exceeded the buffer size, the
\* bytes handed to the flush callback followed by the bytes still buffered
\* are the concatenation of the strings written, and no byte outside a
\* written string has been read.
C40_FlushedThenBufferedIsWritten ==
    ~probe.over
    => /\ probe.flushed \o Buffered(probe.rb) = probe.written
       /\ ~probe.outside

\* the signals among the stops of the single-stepping, SIGTRAP left out
RECURSIVE SignalsOf(_)
SignalsOf(stops) ==
    IF stops = <<>> THEN <<>>
    ELSE IF stops[1] = SIGTRAP THEN SignalsOf(Tail(stops))
    ELSE <<stops[1]>> \o SignalsOf(Tail(stops))

\* C31: when handle_syscall_exit has returned, every signal other than
\* SIGTRAP that stopped the thread during the single-stepping has been given
\* to the tracee with a later step or is the task's signal for its next
\* resume, in the order received, and no SIGTRAP was given to the tracee.
C31_StepSignalsDelivered ==
    probe.pc = "exit_returned"
    => /\ SignalsOf(probe.stops) =
            probe.delivered \o (IF tasks[1].signal_to_deliver = None THEN <<>>
                                ELSE <<tasks[1].signal_to_deliver>>)
       /\ \A k \in 1..Len(probe.delivered) : probe.delivered[k] # SIGTRAP

\* ================================================================
\* TracedTask::run on its own, for the states it handles itself (an Event
\* goes to handle_ptrace_event and a Syscall to handle_syscall_exit): the
\* task, and the lines of the tracee's maps file that show_fault_context
\* decodes (the third has a device major above 255, three digits).
SIGSEGV == 11
SIGILL == 4

InitRun ==
    /\ LET text ==
             <<"4", "0", "0", "0", "0", "0", "-", "4", "0", "1", "0", "0", "0", " ", "r", "-",
               "x", "p", " ", "0", "0", "0", "0", "0", "0", "0", "0", " ", "f", "d", ":", "0",
               "1", " ", "1", "3", "1", "5", " ", " ", " ", "/", "b", "i", "n", "/", "t", "r",
               "u", "e">>
           stack ==
             <<"7", "f", "f", "f", "f", "f", "f", "d", "e", "0", "0", "0", "-", "7", "f", "f",
               "f", "f", "f", "f", "f", "f", "0", "0", "0", " ", "r", "w", "-", "p", " ", "0",
               "0", "0", "0", "0", "0", "0", "0", " ", "0", "0", ":", "0", "0", " ", "0", " ",
               " ", " ", "[", "s", "t", "a", "c", "k", "]">>
           major3 ==
             <<"7", "f", "f", "f", "f", "7", "d", "d", "3", "0", "0", "0", "-", "7", "f", "f",
               "f", "f", "7", "d", "f", "c", "0", "0", "0", " ", "r", "-", "x", "p", " ", "0",
               "0", "0", "0", "0", "0", "0", "0", " ", "1", "0", "3", ":", "0", "2", " ", "1",
               "3", "1", "5", " ", " ", " ", "/", "l", "i", "b", "/", "l", "d", ".", "s", "o">>
       IN
       \E state \in {Running, Ready, Exited(0)}
                    \cup {Stopped(sig) : sig \in {SIGTRAP, SIGCHLD, SIGSEGV, SIGILL, 2, 15}}
                    \cup {<<"Signaled", sig>> : sig \in {9, SIGSEGV}},
          pending \in {None, SIGCHLD}, in_vfork \in BOOLEAN,
          hook_size \in {None, 3},
          lines \in {<<text>>, <<text, stack>>, <<text, major3, stack>>} :
             /\ probe = [pc |-> "run", lines |-> lines,
                         task |-> [new(1) EXCEPT !.state = state,
                                                 !.signal_to_deliver = pending,
                                                 !.in_vfork = in_vfork,
                                                 !.seccomp_hook_size = hook_size]]
             /\ tasks = [t \in Tasks |-> IF t = 1 THEN probe.task ELSE new(t)]
    /\ rc = [h \in Tasks |-> EmptyCell]
    /\ thr = [t \in Tasks |->
                IF t = 1
                THEN [NoThread EXCEPT !.sched = "stopped", !.aspace = 1, !.tgid = 1]
                ELSE NoThread]
    /\ space = [a \in Tasks |-> FreshSpace]
    /\ sup = Idle
    /\ systrace_state =
         [nr_syscalls |-> 0, nr_syscalls_ptraced |-> 0, nr_syscalls_patched |-> 0,
          nr_forked |-> 0, nr_cloned |-> 0, nr_exited |-> 0, nr_process_spawns |-> 0]
    /\ nevents = 0

\* TracedTask::run: a Running or Ready task is returned as it is; a Signaled
\* one is continued with its signal and reported as exited; for a Stopped
\* one the signal is kept for the resume, after show_fault_context for
\* SIGSEGV and SIGILL, which unwraps the decoded maps; an Exited one is
\* unreachable!
run(t) ==
    /\ probe.pc = "run"
    /\ LET state == tasks[t].state
           dumped == state[2] \in {SIGSEGV, SIGILL}
                     => decode_proc_maps_lines(probe.lines).ok
       IN  IF state[1] = "Stopped" /\ dumped
           THEN /\ tasks' = [tasks EXCEPT ![t].signal_to_deliver = state[2]]
                /\ probe' = [probe EXCEPT !.pc = "run_runnable"]
                /\ UNCHANGED thr
           ELSE IF state[1] = "Signaled"
           THEN /\ probe' = [probe EXCEPT !.pc = "run_exited"]
                /\ thr' = [thr EXCEPT ![t].sched = "dead"]
                /\ UNCHANGED tasks
           ELSE /\ probe' = [probe EXCEPT !.pc = IF state[1] \in {"Running", "Ready"}
                                                 THEN "run_runnable" ELSE "run_panic"]
                /\ UNCHANGED <<tasks, thr>>
    /\ UNCHANGED <<rc, space, sup, systrace_state, nevents>>

NextRun == run(1)

SpecRun == InitRun /\ [][NextRun]_vars

\* C32: when run() has handled a task in state Stopped(sig), the task is
\* returned runnable with signal_to_deliver = sig and every other field as
\* it was, for every sig, SIGSEGV and SIGILL included.
C32_StoppedSignalKept ==
    (probe.pc # "run" /\ probe.task.state[1] = "Stopped")
    => /\ probe.pc = "run_runnable"
       /\ tasks[1] = [probe.task EXCEPT !.signal_to_deliver = probe.task.state[2]]

====
